---- MODULE Spec2Model ----
(***************************************************************************)
(* dprint: the AST-to-document translator of src/src/parsing/parser.ts,    *)
(* run over bounded babel trees, followed by the resolution of the         *)
(* produced document into text.                                            *)
(*                                                                         *)
(* A babel node is a record: type, line (loc.start.line), endLine          *)
(* (loc.end.line), the three comment collections (an absent collection is  *)
(* the empty sequence) and the fields of its kind.  A field that is null   *)
(* in the tree holds Null, except `body`, which a node either has or has   *)
(* not (hasBody reads its presence).  A babel comment is a record with an  *)
(* id (the object's identity), its type, its value as a sequence of        *)
(* characters and its lines.  A string is a sequence of atoms (TLA+        *)
(* strings), its width the sum of the atoms' lengths.                      *)
(***************************************************************************)
EXTENDS Integers, Sequences, FiniteSets, TLC

VARIABLES
    file,             \* Context.file: the tree being translated
    fileText,         \* Context.fileText: the text of the file, a sequence of atoms
    log,              \* the messages Context.log has been called with, in order
    newLineKind,      \* Context.newLineKind
    options,          \* Context.options: the resolved configuration
    handledComments,  \* Context.handledComments (ids of babel.Comment objects)
    phase,            \* where the run is: "parse", "print", "done"
    nextStatement,    \* parseStatements(program): the loop index i (0-based)
    programItems,     \* what parseStatements(program) has yielded so far
    pending,          \* indexes in programItems of groups whose items are not yet drawn
    todo,             \* printer: the items still to print
    writer,           \* printer: the writer's cursor
    output,           \* printer: the text written, one atom per write
    resolvedInfos,    \* printer: Info id -> the writer info when it was passed
    resolvedConditions, \* printer: Condition id -> its outcome
    groupModes,       \* printer: a stack, TRUE for a group committed flat
    pluginSchemaVersion,  \* the plugin: what get_plugin_schema_version returns
    memoryBufferSize,     \* the plugin: what get_wasm_memory_buffer_size returns
    sharedBytes,          \* the plugin: its shared bytes
    memoryBuffer,         \* the plugin: the bytes at get_wasm_memory_buffer()
    formatter,            \* how the formatter was created: "", or the function called
    bufferSize,           \* createFromInstance: bufferSize
    configSet,            \* createFromInstance: configSet
    operation,            \* the last call: its name and arguments, the exports it
                          \* called, its sendString and receiveString runs, its end
    operations,           \* the number of operations called on the formatter
    configured            \* whether a call of setConfig has run to completion

translation == <<file, fileText, log, newLineKind, options, handledComments, phase, nextStatement,
                 programItems, pending, todo, writer, output, resolvedInfos,
                 resolvedConditions, groupModes>>

wasm == <<pluginSchemaVersion, memoryBufferSize, sharedBytes, memoryBuffer, formatter,
          bufferSize, configSet, operation, operations, configured>>

vars == <<translation, wasm>>

----------------------------------------------------------------------------
(* Bounds of the model.                                                    *)

\* Source lines run from 1 to MaxLine.
MaxLine == 3
\* A program has at most MaxStatements statements in the sequence family.
MaxStatements == 2

\* A delimited list has at most MaxElements elements.
MaxElements == 3

Lines == 1..MaxLine

----------------------------------------------------------------------------
(* Sequences.                                                              *)

RECURSIVE SumLen(_)
SumLen(s) == IF s = <<>> THEN 0 ELSE Len(Head(s)) + SumLen(Tail(s))

RECURSIVE Concat(_)
Concat(ss) == IF ss = <<>> THEN <<>> ELSE Head(ss) \o Concat(Tail(ss))

Range(s) == {s[i] : i \in DOMAIN s}

----------------------------------------------------------------------------
(* The formatter over a wasm plugin (src/unnamed/part_000).  A text is a   *)
(* sequence of characters, its encoding a sequence of bytes.  The plugin   *)
(* is the wasm instance: its exports act on its shared bytes and on its    *)
(* memory buffer.  An operation of the formatter runs to its end in one    *)
(* step; `operation` keeps what the last one was called with, the exports  *)
(* it called and how it ended.                                             *)

\* A text has at most MaxTextLength characters.
MaxTextLength == 2
\* The plugin's memory buffer has at most MaxBufferSize bytes.
MaxBufferSize == 4
\* At most MaxOperations operations are called on a formatter.
MaxOperations == 3

Min(a, b) == IF a < b THEN a ELSE b

\* TextEncoder.encode: the UTF-8 bytes of a character.
Utf8 ==
    "a" :> <<97>> @@ "1" :> <<49>> @@ "{" :> <<123>> @@ "}" :> <<125>>
    @@ "\\u00E9" :> <<195, 169>>

\* TextEncoder.encode
RECURSIVE encode(_)
encode(text) == IF text = <<>> THEN <<>> ELSE Utf8[Head(text)] \o encode(Tail(text))

\* TextDecoder.decode: the characters of UTF-8 bytes; a byte that starts no
\* character of the text is decoded as U+FFFD, the byte 0 as U+0000.
RECURSIVE decode(_)
decode(bytes) ==
    IF bytes = <<>> THEN <<>>
    ELSE IF Len(bytes) >= 2 /\ SubSeq(bytes, 1, 2) = <<195, 169>>
    THEN <<"\\u00E9">> \o decode(SubSeq(bytes, 3, Len(bytes)))
    ELSE (IF \E c \in DOMAIN Utf8 : Utf8[c] = <<Head(bytes)>>
          THEN <<CHOOSE c \in DOMAIN Utf8 : Utf8[c] = <<Head(bytes)>>>>
          ELSE IF Head(bytes) = 0 THEN <<"\\u0000">> ELSE <<"\\uFFFD">>)
         \o decode(Tail(bytes))

\* JSON.stringify of an object: its properties between braces.
JSONstringify(object) == <<"{">> \o object \o <<"}">>

\* JSON.parse: the object of a JSON text, or a SyntaxError.
JSONparse(text) ==
    IF /\ Len(text) >= 2
       /\ text[1] = "{"
       /\ text[Len(text)] = "}"
       /\ \A i \in 2..(Len(text) - 1) : text[i] \notin {"{", "}", "\\u0000", "\\uFFFD"}
    THEN [ok |-> TRUE, value |-> SubSeq(text, 2, Len(text) - 1)]
    ELSE [ok |-> FALSE, value |-> <<>>]

Error(name, message) == [name |-> name, message |-> message]
NoError == Error("", <<>>)
ConfigNotSet == Error("Error", <<"You must call setConfig before calling this function.">>)


\* The state a run of an operation goes through: the plugin's bytes, the
\* exports called, the runs of sendString and receiveString, and the error
\* thrown, if any, after which nothing more is done.
Run(shared, memory) ==
    [sharedBytes |-> shared, memoryBuffer |-> memory, exports |-> <<>>,
     sends |-> <<>>, receives |-> <<>>, thrown |-> NoError, value |-> <<>>]

Throw(run, error) == [run EXCEPT !.thrown = error]
Thrown(run) == run.thrown # NoError

\* An export of the plugin is called.
Export(run, call) == [run EXCEPT !.exports = Append(@, call)]

\* The plugin: clear_shared_bytes(capacity) empties the shared bytes.
clear_shared_bytes(capacity, run) ==
    Export([run EXCEPT !.sharedBytes = <<>>], <<"clear_shared_bytes", capacity>>)

\* The plugin: add_to_shared_bytes_from_buffer(length) appends the first
\* length bytes of the memory buffer to the shared bytes.
add_to_shared_bytes_from_buffer(length, run) ==
    Export([run EXCEPT !.sharedBytes = @ \o SubSeq(run.memoryBuffer, 1, length)],
           <<"add_to_shared_bytes_from_buffer", length>>)

\* The plugin: set_buffer_with_shared_bytes(offset, length) copies the shared
\* bytes from offset on to the start of the memory buffer.
set_buffer_with_shared_bytes(offset, length, run) ==
    Export([run EXCEPT !.memoryBuffer =
                [i \in DOMAIN @ |->
                    IF i <= length THEN run.sharedBytes[offset + i] ELSE @[i]]],
           <<"set_buffer_with_shared_bytes", offset, length>>)

\* The plugin: an export that leaves a text in the shared bytes and returns
\* its length (get_formatted_text, get_error_text, get_plugin_info,
\* get_resolved_config, get_config_diagnostics).
get_text(name, text, run) ==
    Export([run EXCEPT !.sharedBytes = encode(text)], <<name>>)

\* TypedArray.prototype.set(source, offset) on an array of `length` elements:
\* a RangeError when the source does not fit after the offset.
TypedArraySetFits(length, source, offset) == offset + Len(source) <= length

TypedArraySet(target, source, offset) ==
    [i \in DOMAIN target |->
        IF i > offset /\ i <= offset + Len(source) THEN source[i - offset] ELSE target[i]]

RangeError == Error("RangeError", <<"offset is out of bounds">>)

\* sendString: the while loop, from index on
RECURSIVE sendStringLoop(_, _, _)
sendStringLoop(encodedText, index, run) ==
    IF ~(index < Len(encodedText))
    THEN run
    ELSE LET writeCount == Min(Len(encodedText) - index, bufferSize)
             pointed == Export(run, <<"get_wasm_memory_buffer">>)
         IN IF ~TypedArraySetFits(writeCount, encodedText, index)
            THEN Throw(pointed, RangeError)
            ELSE sendStringLoop(
                     encodedText, index + writeCount,
                     add_to_shared_bytes_from_buffer(
                         writeCount,
                         [pointed EXCEPT !.memoryBuffer =
                              TypedArraySet(@, encodedText, index)]))

\* What is kept of a run of sendString: the text and the shared bytes and
\* the error at its end.
Sent(text, before, after) ==
    [after EXCEPT !.sends = Append(@, [text |-> text,
                                       first |-> Len(before.exports) + 1,
                                       sharedBytes |-> after.sharedBytes,
                                       thrown |-> after.thrown])]

sendString(text, run) ==
    IF Thrown(run) THEN run
    ELSE Sent(text, run,
              sendStringLoop(encode(text), 0, clear_shared_bytes(Len(encode(text)), run)))

\* receiveString: the while loop, from index on; run.value is `buffer`
RECURSIVE receiveStringLoop(_, _, _)
receiveStringLoop(length, index, run) ==
    IF ~(index < length)
    THEN run
    ELSE LET readCount == Min(length - index, bufferSize)
             filled == Export(set_buffer_with_shared_bytes(index, readCount, run),
                              <<"get_wasm_memory_buffer">>)
         IN receiveStringLoop(
                length, index + readCount,
                [filled EXCEPT !.value =
                     TypedArraySet(@, SubSeq(filled.memoryBuffer, 1, readCount), 0)])

\* What is kept of a run of receiveString: the shared bytes it was to
\* receive, the buffer at its end and the exports it called.
Received(before, after) ==
    [after EXCEPT !.receives = Append(@, [sharedBytes |-> before.sharedBytes,
                                          first |-> Len(before.exports) + 1,
                                          last |-> Len(after.exports),
                                          buffer |-> after.value]),
                  !.value = decode(after.value)]

\* receiveString(length): run.value is the string returned
receiveString(length, run) ==
    IF Thrown(run) THEN run
    ELSE Received(run, receiveStringLoop(length, 0,
                                         [run EXCEPT !.value = [i \in 1..length |-> 0]]))

\* An export is called, unless the run has thrown.
Call(call, run) == IF Thrown(run) THEN run ELSE Export(run, call)

\* An export that leaves a text is called, unless the run has thrown.
CallForText(name, text, run) == IF Thrown(run) THEN run ELSE get_text(name, text, run)

\* throwIfConfigNotSet
throwIfConfigNotSet(run) == IF ~configSet THEN Throw(run, ConfigNotSet) ELSE run

\* A property value of a configuration object, and its toString().
Value(type, text) == [type |-> type, text |-> text]
toString(value) == Value("string", value.text)

\* The text of a configuration object: the texts of its property values.
Properties(object) == [i \in DOMAIN object |-> object[i].text]

\* setConfig.getPluginConfigWithStringProps
getPluginConfigWithStringProps(pluginConfig) ==
    [i \in DOMAIN pluginConfig |-> toString(pluginConfig[i])]

\* How an operation ends: its run, and configSet after it.
End(run, set) == [run |-> run, configSet |-> set]

setConfigSetFirst(globalConfig, pluginConfig, run) ==
    End(Call(<<"set_plugin_config">>,
             sendString(JSONstringify(Properties(getPluginConfigWithStringProps(pluginConfig))),
                        Call(<<"set_global_config">>,
                             sendString(JSONstringify(Properties(globalConfig)), run)))),
        TRUE)

\* setConfig(globalConfig, pluginConfig)
setConfig(globalConfig, pluginConfig, run) ==
    LET sent == Call(<<"set_plugin_config">>,
                     sendString(
                         JSONstringify(Properties(getPluginConfigWithStringProps(pluginConfig))),
                         Call(<<"set_global_config">>,
                              sendString(JSONstringify(Properties(globalConfig)), run))))
    IN End(sent, IF Thrown(sent) THEN configSet ELSE TRUE)

\* return JSON.parse(<the string run.value>)
ReturnParsed(run) ==
    IF Thrown(run) THEN run
    ELSE IF JSONparse(run.value).ok
    THEN [run EXCEPT !.value = JSONparse(run.value).value]
    ELSE Throw(run, Error("SyntaxError", run.value))

\* getConfigDiagnostics(); the plugin's diagnostics are `text`
getConfigDiagnostics(text, run) ==
    LET asked == CallForText("get_config_diagnostics", text, throwIfConfigNotSet(run))
    IN End(ReturnParsed(receiveString(Len(asked.sharedBytes), asked)), configSet)

\* getResolvedConfig(); the plugin's resolved configuration is `text`
getResolvedConfig(text, run) ==
    LET asked == CallForText("get_resolved_config", text, throwIfConfigNotSet(run))
    IN End(receiveString(Len(asked.sharedBytes), asked), configSet)

\* getPluginInfo(); the plugin's info is `text`
getPluginInfo(text, run) ==
    LET asked == CallForText("get_plugin_info", text, run)
    IN End(ReturnParsed(receiveString(Len(asked.sharedBytes), asked)), configSet)

\* The response codes of the plugin's format export: no change, change, error.
ResponseCodes == 0..2

\* throw new Error(<the string run.value>)
ThrowReceived(run) == IF Thrown(run) THEN run ELSE Throw(run, Error("Error", run.value))

\* formatText(filePath, fileText), its fileText here text0; the plugin's format returns responseCode
\* and the plugin's formatted text or error text is `text`
formatText(filePath, text0, responseCode, text, run) ==
    LET formatted == Call(<<"format">>,
                          sendString(text0,
                                     Call(<<"set_file_path">>,
                                          sendString(filePath, throwIfConfigNotSet(run)))))
    IN End(IF Thrown(formatted) THEN formatted
           ELSE CASE responseCode = 0 -> [formatted EXCEPT !.value = text0]
                  [] responseCode = 1 ->
                         LET asked == CallForText("get_formatted_text", text, formatted)
                         IN receiveString(Len(asked.sharedBytes), asked)
                  [] responseCode = 2 ->
                         LET asked == CallForText("get_error_text", text, formatted)
                         IN ThrowReceived(receiveString(Len(asked.sharedBytes), asked))
                  [] OTHER -> [formatted EXCEPT !.value = <<"undefined">>],
           configSet)

Digits == <<"1", "2", "3", "4", "5", "6", "7", "8", "9">>

\* createFromInstance(wasmInstance): the exports called and the error thrown
createFromInstance(run) ==
    LET asked == Export(run, <<"get_plugin_schema_version">>)
    IN IF pluginSchemaVersion # 1
       THEN Throw(asked, Error("Error", <<"Not compatible plugin. Expected schema 1",
                                          ", but plugin had ",
                                          Digits[pluginSchemaVersion], ".">>))
       ELSE Export(asked, <<"get_wasm_memory_buffer_size">>)

\* createFromBuffer(wasmModuleBuffer)
createFromBuffer(run) == createFromInstance(run)

\* createStreaming(response): createFormatterFromWasmInstance is not defined;
\* the promise is rejected with the ReferenceError
createStreaming(run) ==
    Throw(run, Error("ReferenceError",
                     <<"createFormatterFromWasmInstance is not defined">>))

----------------------------------------------------------------------------
(* The plugins, the texts and the configurations of the model.             *)

PluginSchemaVersions == {1, 2}
BufferSizes == 1..MaxBufferSize

\* The texts of at most MaxTextLength characters: of one byte each, but for
\* the last, of one byte or of two.
Texts ==
    UNION {{[i \in 1..n |-> IF i = n THEN c ELSE "a"] : c \in {"a", "\\u00E9"}} :
           n \in 0..MaxTextLength}

\* The file paths.
FilePaths == {<<"a">>, <<"\\u00E9">>}

\* The configuration objects: no property, or one.
Configs == {<<>>, <<Value("number", "1")>>, <<Value("string", "a")>>}

\* The JSON texts of the plugin: its info, its diagnostics.
PluginJSON == {JSONstringify(<<>>), JSONstringify(<<"a">>), JSONstringify(<<"a", "1">>)}

\* What is kept of an operation: its name, what it was called with and what
\* the plugin had to answer, and the end of its run.
Operation(name, arguments, run) ==
    [name |-> name, given |-> arguments, exports |-> run.exports,
     sends |-> run.sends, receives |-> run.receives, thrown |-> run.thrown,
     value |-> IF Thrown(run) THEN <<>> ELSE run.value]

NoOperation == Operation("", [text |-> <<>>], Run(<<>>, <<>>))

----------------------------------------------------------------------------
(* The formatter's actions.                                                *)

\* A formatter is created by createFromInstance or createFromBuffer.
Created(name, run) ==
    /\ formatter = ""
    /\ formatter' = IF Thrown(run) THEN "failed" ELSE "created"
    /\ bufferSize' = IF Thrown(run) THEN bufferSize ELSE memoryBufferSize
    /\ configSet' = FALSE
    /\ operation' = Operation(name, [text |-> <<>>], run)
    /\ UNCHANGED <<pluginSchemaVersion, memoryBufferSize, sharedBytes, memoryBuffer,
                   operations, configured, translation>>

CreateFromInstance ==
    Created("createFromInstance", createFromInstance(Run(sharedBytes, memoryBuffer)))

CreateFromBuffer ==
    Created("createFromBuffer", createFromBuffer(Run(sharedBytes, memoryBuffer)))

CreateStreaming ==
    Created("createStreaming", createStreaming(Run(sharedBytes, memoryBuffer)))

\* An operation of the formatter has run to its end.
Operated(name, arguments, end) ==
    /\ formatter = "created"
    /\ operations < MaxOperations
    /\ operations' = operations + 1
    /\ sharedBytes' = end.run.sharedBytes
    /\ memoryBuffer' = end.run.memoryBuffer
    /\ configSet' = end.configSet
    /\ operation' = Operation(name, arguments, end.run)
    /\ configured' = (configured \/ (name = "setConfig" /\ ~Thrown(end.run)))
    /\ UNCHANGED <<pluginSchemaVersion, memoryBufferSize, formatter, bufferSize,
                   translation>>

SetConfig ==
    \E globalConfig, pluginConfig \in Configs :
        Operated("setConfig", [globalConfig |-> globalConfig, pluginConfig |-> pluginConfig],
                 setConfig(globalConfig, pluginConfig, Run(sharedBytes, memoryBuffer)))

GetConfigDiagnostics ==
    \E text \in PluginJSON :
        Operated("getConfigDiagnostics", [text |-> text],
                 getConfigDiagnostics(text, Run(sharedBytes, memoryBuffer)))

GetResolvedConfig ==
    \E text \in PluginJSON :
        Operated("getResolvedConfig", [text |-> text],
                 getResolvedConfig(text, Run(sharedBytes, memoryBuffer)))

GetPluginInfo ==
    \E text \in PluginJSON :
        Operated("getPluginInfo", [text |-> text],
                 getPluginInfo(text, Run(sharedBytes, memoryBuffer)))

FormatText ==
    \E filePath \in FilePaths, text0 \in Texts, responseCode \in ResponseCodes :
      \E text \in IF responseCode = 0 THEN {<<>>} ELSE Texts :
        Operated("formatText",
                 [filePath |-> filePath, fileText |-> text0,
                  responseCode |-> responseCode, text |-> text],
                 formatText(filePath, text0, responseCode, text,
                            Run(sharedBytes, memoryBuffer)))

\* No plugin: the state of the formatter's variables while a file is translated.
NoFormatter ==
    /\ pluginSchemaVersion = 1
    /\ memoryBufferSize = 1
    /\ sharedBytes = <<>>
    /\ memoryBuffer = <<0>>
    /\ formatter = ""
    /\ bufferSize = 0
    /\ configSet = FALSE
    /\ operation = NoOperation
    /\ operations = 0
    /\ configured = FALSE

----------------------------------------------------------------------------
(* Print items (../types: PrintItem, PrintItemKind, Behaviour).            *)

Str(s) == [kind |-> "String", text |-> s]
Lit(a) == Str(<<a>>)
Sig(b) == [kind |-> "Behaviour", behaviour |-> b]
Group(items) == [kind |-> "Group", items |-> items]
Unknown(text) == [kind |-> "Unknown", text |-> text]

SpaceOrNewLine == Sig("SpaceOrNewLine")
ExpectNewLine == Sig("ExpectNewLine")
StartIndent == Sig("StartIndent")
FinishIndent == Sig("FinishIndent")
StartHangingIndent == Sig("StartHangingIndent")
FinishHangingIndent == Sig("FinishHangingIndent")

\* yield context.newLineKind
NewLine == Lit(newLineKind)

\* The output of generators drawn to their end: the items yielded, the set
\* of handled comments left and the messages logged since the draw began.
R(items, handled) == [items |-> items, handled |-> handled, log |-> <<>>]

\* yield items
Yield(st, items) == [st EXCEPT !.items = @ \o items]

\* The output of a generator that starts now: nothing yielded, the same context.
Sub(st) == [st EXCEPT !.items = <<>>]

\* yield* r
Then(st, r) == [r EXCEPT !.items = st.items \o @]

Null == [type |-> "null"]
\* lastNode === undefined in parseCommentCollection
Undefined == [type |-> "undefined", endLine |-> 0]

createInfo(owner, name) == [kind |-> "Info", name |-> name, id |-> <<owner, name>>]

----------------------------------------------------------------------------
(* Comments.                                                               *)

IsSpace(a) == a \in {" ", "\t"}

RECURSIVE TrimStart(_)
TrimStart(s) == IF s # <<>> /\ IsSpace(Head(s)) THEN TrimStart(Tail(s)) ELSE s

RECURSIVE TrimEnd(_)
TrimEnd(s) ==
    IF s # <<>> /\ IsSpace(s[Len(s)]) THEN TrimEnd(SubSeq(s, 1, Len(s) - 1)) ELSE s

\* String.prototype.trim
Trim(s) == TrimEnd(TrimStart(s))

parseCommentBlock(comment) == <<Lit("/*"), Str(comment.value), Lit("*/")>>

parseCommentLine(comment) == <<Str(<<"// ">> \o Trim(comment.value)), ExpectNewLine>>

parseCommentNotRecorded(comment, st) ==
    IF comment.id \in st.handled
    THEN st
    ELSE Yield(st, IF comment.type = "CommentBlock"
                   THEN parseCommentBlock(comment)
                   ELSE parseCommentLine(comment))

\* parseComment, run: st is what has been yielded so far and the handled
\* comments; the result is the same after the generator has finished.
parseComment(comment, st) ==
    IF comment.id \in st.handled
    THEN st
    ELSE Yield([st EXCEPT !.handled = @ \cup {comment.id}],
               IF comment.type = "CommentBlock"
               THEN parseCommentBlock(comment)
               ELSE parseCommentLine(comment))

\* What parseCommentCollection yields before a comment it has not skipped.
commentSeparator(lastNode, comment) ==
    IF lastNode = Undefined
    THEN <<>>
    ELSE (IF lastNode.endLine < comment.line - 1 THEN <<NewLine, NewLine>> ELSE <<>>)
         \o (IF lastNode.endLine < comment.line THEN <<NewLine>>
             ELSE IF comment.type = "CommentLine" THEN <<Lit(" ")>>
             ELSE IF lastNode.type = "CommentBlock" THEN <<Lit(" ")>>
             ELSE <<>>)

\* lastNode as parseCommentCollection reads it: its type and loc.end.line.
AsLast(n) == [type |-> n.type, endLine |-> n.endLine]

\* parseCommentCollection, run.
RECURSIVE parseCommentCollection(_, _, _)
parseCommentCollection(comments, lastNode, st) ==
    IF comments = <<>>
    THEN st
    ELSE IF Head(comments).id \in st.handled
    THEN parseCommentCollection(Tail(comments), lastNode, st)
    ELSE parseCommentCollection(
             Tail(comments), AsLast(Head(comments)),
             parseComment(Head(comments),
                          Yield(st, commentSeparator(lastNode, Head(comments)))))

\* yield* parseComment(comment, context), not yet run
YieldComment(comment) == [kind |-> "parseComment", comment |-> comment]

\* yield* parseCommentCollection(comments, lastNode, context), not yet run
YieldCommentCollection(comments, lastNode) ==
    [kind |-> "parseCommentCollection", comments |-> comments, lastNode |-> lastNode]

parseLeadingComments(node) ==
    <<YieldCommentCollection(node.leadingComments, Undefined)>>

parseTrailingComments(node) ==
    <<YieldCommentCollection(node.trailingComments, AsLast(node))>>

\* prependToIterableIfHasItems(iterable, item), not yet run
prependToIterableIfHasItems(iterable, item) ==
    <<[kind |-> "prependToIterableIfHasItems", iterable |-> iterable, item |-> item]>>

\* prependToIterableIfHasItems, run: r is the iterable drawn to its end
prepended(r, item) ==
    IF r.items = <<>> THEN r ELSE [r EXCEPT !.items = <<item>> \o @]

----------------------------------------------------------------------------
(* Wrappers.                                                               *)

withIndentUnclosed(items) == <<StartIndent>> \o items

withIndent(items) == <<StartIndent>> \o items \o <<FinishIndent>>

withHangingIndent(items) == <<StartHangingIndent>> \o items \o <<FinishHangingIndent>>

surroundWithNewLines(items) == <<NewLine>> \o items \o <<NewLine>>

----------------------------------------------------------------------------
(* Conditions.  A condition's predicate is a closure in the source; here   *)
(* it is a record naming the predicate and the Infos it closes over, which *)
(* conditionValue evaluates.                                               *)

Condition(id, name, condition, true, false) ==
    [kind |-> "Condition", id |-> id, name |-> name, condition |-> condition,
     true |-> true, false |-> false]

newLineIfHangingSpaceOtherwise(owner, info) ==
    Condition(<<owner, "newLineIfHangingSpaceOtherwise">>,
              "newLineIfHangingSpaceOtherwise",
              [fn |-> "isHanging", info |-> info.id],
              <<NewLine>>, <<Lit(" ")>>)

----------------------------------------------------------------------------
(* Checks.                                                                 *)

hasBody(node) == "body" \in DOMAIN node

hasLeadingCommentOnDifferentLine(node, commentsToIgnore) ==
    \E i \in DOMAIN node.leadingComments :
        LET c == node.leadingComments[i] IN
        /\ c \notin Range(commentsToIgnore)
        /\ (c.type = "CommentLine" \/ c.line < node.line)

getUseNewLinesForNodesFirstAndLast(nodes) ==
    IF Len(nodes) <= 1 THEN FALSE
    ELSE IF nodes[1].line = nodes[Len(nodes)].line THEN FALSE
    ELSE TRUE

getUseNewLinesForNodes(nodes) ==
    IF Len(nodes) <= 1 THEN FALSE
    ELSE IF nodes[1].line = nodes[2].line THEN FALSE
    ELSE TRUE

useNewLinesForParametersOrArguments(params) == getUseNewLinesForNodes(params)

----------------------------------------------------------------------------
(* The translator: one operator per parse function, giving what the        *)
(* generator yields.  A Group's items are a generator that has not run     *)
(* yet: parseNode gives the group as the node it closes over (LazyGroup),  *)
(* and a yield* of a comment generator is kept as the call (YieldComment,  *)
(* YieldCommentCollection), because what it yields depends on the          *)
(* comments handled when it runs.  Draw runs them.                         *)

LazyGroup(node) == [kind |-> "LazyGroup", node |-> node]

parseNode(node) == IF node = Null THEN Group(<<>>) ELSE LazyGroup(node)

\* for (let i = 0; i < nodes.length; i++) { if (i > 0) yield the separator;
\* yield parseNode(nodes[i], context); }
parseNodesSeparatedBy(nodes, separator) ==
    Concat([i \in DOMAIN nodes |->
               (IF i > 1 THEN separator ELSE <<>>) \o <<parseNode(nodes[i])>>])

parseIdentifier(node) == <<Lit(node.name)>>

\* parseBlockStatement.getFirstLineTrailingComments
getFirstLineTrailingComments(node) ==
    Concat([i \in DOMAIN node.trailingComments |->
               LET trailingComment == node.trailingComments[i] IN
               IF trailingComment.line = node.line
               THEN (IF trailingComment.type = "CommentLine" THEN <<Lit(" ")>> ELSE <<>>)
                    \o <<YieldComment(trailingComment)>>
               ELSE <<>>])

\* parseStatements: the separator yielded before statements[i] (1-based, i > 1)
statementSeparatorAlwaysOne(statements, i) == <<NewLine>>

statementSeparator(statements, i) ==
    IF hasBody(statements[i - 1]) \/ hasBody(statements[i])
    THEN <<NewLine, NewLine>>
    ELSE <<NewLine>>

parseStatements(block) ==
    Concat([i \in DOMAIN block.body |->
               (IF i > 1 THEN statementSeparator(block.body, i) ELSE <<>>)
               \o <<parseNode(block.body[i])>>])
    \o <<YieldCommentCollection(block.innerComments, Undefined)>>

parseProgram(node) == parseStatements(node)

parseBlockStatement(node) ==
    <<Lit("{")>>
    \o getFirstLineTrailingComments(node)
    \o <<NewLine>>
    \o withIndent(parseStatements(node))
    \o <<Lit("}")>>

(* declarations *)

\* parseImportDeclaration.parseNamedImports.getUseNewLines
getUseNewLines(node, namedImports) ==
    IF Len(namedImports) = 1 /\ namedImports[1].line # node.line
    THEN TRUE
    ELSE getUseNewLinesForNodes(namedImports)

\* parseImportDeclaration.parseNamedImports.parseSpecifiers
parseSpecifiers(namedImports, useNewLines) ==
    parseNodesSeparatedBy(namedImports,
                          <<Lit(","), IF useNewLines THEN NewLine ELSE SpaceOrNewLine>>)

parseNamedImports(node, namedImports) ==
    LET useNewLines == getUseNewLines(node, namedImports)
        braceSeparator == IF useNewLines THEN NewLine ELSE Lit(" ")
    IN IF Len(namedImports) = 0
       THEN <<>>
       ELSE <<Lit("{"), braceSeparator>>
            \o (IF useNewLines
                THEN withIndent(parseSpecifiers(namedImports, useNewLines))
                ELSE withHangingIndent(parseSpecifiers(namedImports, useNewLines)))
            \o <<braceSeparator, Lit("}")>>

\* Array.prototype.find: the first element of the type, or Null
FindType(nodes, type) ==
    IF \E i \in DOMAIN nodes : nodes[i].type = type
    THEN nodes[CHOOSE i \in DOMAIN nodes :
                   /\ nodes[i].type = type
                   /\ \A j \in 1..(i - 1) : nodes[j].type # type]
    ELSE Null

parseImportDeclaration(node) ==
    LET defaultImport == FindType(node.specifiers, "ImportDefaultSpecifier")
        namespaceImport == FindType(node.specifiers, "ImportNamespaceSpecifier")
        namedImports == SelectSeq(node.specifiers, LAMBDA s : s.type = "ImportSpecifier")
    IN <<Lit("import ")>>
       \o (IF defaultImport # Null
           THEN <<parseNode(defaultImport)>>
                \o (IF namespaceImport # Null \/ Len(namedImports) > 0
                    THEN <<Lit(", ")>> ELSE <<>>)
           ELSE <<>>)
       \o (IF namespaceImport # Null THEN <<parseNode(namespaceImport)>> ELSE <<>>)
       \o parseNamedImports(node, namedImports)
       \o (IF Len(node.specifiers) > 0 THEN <<Lit(" from ")>> ELSE <<>>)
       \o <<parseNode(node.source)>>
       \o (IF options["importDeclaration.semiColon"] THEN <<Lit(";")>> ELSE <<>>)

parseImportDefaultSpecifier(specifier) == <<parseNode(specifier.local)>>

parseImportNamespaceSpecifier(specifier) == <<Lit("* as "), parseNode(specifier.local)>>

parseImportSpecifier(specifier) ==
    IF specifier.imported.start = specifier.local.start
    THEN <<parseNode(specifier.imported)>>
    ELSE <<parseNode(specifier.imported), Lit(" as "), parseNode(specifier.local)>>

parseExportNamedDeclaration(node) == <<Lit("export "), parseNode(node.declaration)>>

\* parseTypeParameterDeclaration.parseParameterList
typeParameterList(declaration) ==
    parseNodesSeparatedBy(declaration.params, <<Lit(","), SpaceOrNewLine>>)

\* parseTypeParameterDeclaration.parseItems
parseItems(declaration) ==
    <<Lit("<")>>
    \o (IF getUseNewLinesForNodes(declaration.params)
        THEN surroundWithNewLines(withIndent(typeParameterList(declaration)))
        ELSE withHangingIndent(typeParameterList(declaration)))
    \o <<Lit(">")>>

parseTypeParameterDeclaration(declaration) == <<Group(parseItems(declaration))>>

\* parseParametersOrArguments.parseParameterList
parseParameterList(params, useNewLines) ==
    parseNodesSeparatedBy(params,
                          <<Lit(","), IF useNewLines THEN NewLine ELSE SpaceOrNewLine>>)

parseParametersOrArguments(params) ==
    LET useNewLines == useNewLinesForParametersOrArguments(params) IN
    <<Lit("(")>>
    \o (IF useNewLines
        THEN surroundWithNewLines(withIndent(parseParameterList(params, useNewLines)))
        ELSE withHangingIndent(parseParameterList(params, useNewLines)))
    \o <<Lit(")")>>

parseFunctionDeclaration(node) ==
    LET functionHeaderStartInfo == createInfo(node.nid, "functionHeaderStart") IN
    <<functionHeaderStartInfo>>
    \o (IF node.async THEN <<Lit("async ")>> ELSE <<>>)
    \o <<Lit("function")>>
    \o (IF node.generator THEN <<Lit("*")>> ELSE <<>>)
    \o (IF node.id # Null THEN <<Lit(" "), parseNode(node.id)>> ELSE <<>>)
    \o (IF node.typeParameters # Null /\ node.typeParameters.type # "Noop"
        THEN parseTypeParameterDeclaration(node.typeParameters) ELSE <<>>)
    \o parseParametersOrArguments(node.params)
    \o (IF node.returnType # Null /\ node.returnType.type # "Noop"
        THEN <<Lit(": "), parseNode(node.returnType.typeAnnotation)>> ELSE <<>>)
    \o <<newLineIfHangingSpaceOtherwise(node.nid, functionHeaderStartInfo),
         parseNode(node.body)>>

parseTypeAlias(node) ==
    <<Lit("type "), parseNode(node.id)>>
    \o (IF node.typeParameters # Null
        THEN parseTypeParameterDeclaration(node.typeParameters) ELSE <<>>)
    \o <<Lit(" = "), parseNode(node.typeAnnotation)>>
    \o (IF options["typeAlias.semiColon"] THEN <<Lit(";")>> ELSE <<>>)

(* statements *)

parseExpressionStatement(node) ==
    <<parseNode(node.expression)>>
    \o (IF options["expressionStatement.semiColon"] THEN <<Lit(";")>> ELSE <<>>)

\* parseIfStatement.getHeaderTrailingComments.checkComments
checkComments(comments, consequent) ==
    SelectSeq(comments, LAMBDA comment : comment.line = consequent.line)

\* consequent.leadingComments.find(c => c.type === "CommentLine"), as a
\* sequence of at most one comment
FindCommentLine(comments) ==
    LET lines == SelectSeq(comments, LAMBDA c : c.type = "CommentLine") IN
    IF lines = <<>> THEN <<>> ELSE <<Head(lines)>>

\* parseIfStatement.getHeaderTrailingComments (Array.from of it)
getHeaderTrailingComments(node) ==
    IF node.consequent.type = "BlockStatement"
    THEN IF FindCommentLine(node.consequent.leadingComments) # <<>>
         THEN FindCommentLine(node.consequent.leadingComments)
         ELSE IF Len(node.consequent.body) > 0
         THEN checkComments(node.consequent.body[1].leadingComments, node.consequent)
         ELSE checkComments(node.consequent.innerComments, node.consequent)
    ELSE checkComments(node.consequent.leadingComments, node.consequent)

\* parseIfStatement.consequentRequiresBraces
consequentRequiresBraces(statement, headerTrailingComments) ==
    IF statement.type = "BlockStatement"
    THEN IF /\ Len(statement.body) = 1
            /\ ~hasLeadingCommentOnDifferentLine(statement.body[1], headerTrailingComments)
         THEN FALSE
         ELSE TRUE
    ELSE hasLeadingCommentOnDifferentLine(statement, headerTrailingComments)

\* The predicate of parseIfStatement's openBrace condition, as a record.
openBracePredicate(node, requireBraces) ==
    [fn |-> "openBrace", requireBraces |-> requireBraces,
     startHeader |-> <<node.nid, "startHeader">>,
     endHeader |-> <<node.nid, "endHeader">>,
     startStatements |-> <<node.nid, "startStatements">>,
     endStatements |-> <<node.nid, "endStatements">>]

openBraceConditionAlways(node, requireBraces) ==
    Condition(<<node.nid, "openBrace">>, "openBrace",
              openBracePredicate(node, TRUE),
              <<newLineIfHangingSpaceOtherwise(node.nid,
                                               createInfo(node.nid, "startHeader")),
                Lit("{")>>,
              <<>>)

\* parseIfStatement: the openBrace condition
openBraceCondition(node, requireBraces) ==
    Condition(<<node.nid, "openBrace">>, "openBrace",
              openBracePredicate(node, requireBraces),
              <<newLineIfHangingSpaceOtherwise(node.nid,
                                               createInfo(node.nid, "startHeader")),
                Lit("{")>>,
              <<>>)

\* parseIfStatement: the closeBraceNewLine condition
closeBraceNewLine(node) ==
    Condition(<<node.nid, "closeBraceNewLine">>, "closeBraceNewLine",
              [fn |-> "notAreInfoEqual",
               startInfo |-> <<node.nid, "startStatements">>,
               endInfo |-> <<node.nid, "endStatements">>],
              <<NewLine>>, <<>>)

closeBraceOwnPredicate(node, requireBraces) ==
    Condition(<<node.nid, "closeBrace">>, "closeBrace",
              [fn |-> "openBrace", requireBraces |-> requireBraces,
               startHeader |-> <<node.nid, "startHeader">>,
               endHeader |-> <<node.nid, "endHeader">>,
               startStatements |-> <<node.nid, "startStatements">>,
               endStatements |-> <<node.nid, "endStatements">>],
              <<closeBraceNewLine(node), Lit("}")>>, <<>>)

\* parseIfStatement: the closeBrace condition, whose condition is the
\* openBrace Condition object itself
closeBraceCondition(node, requireBraces) ==
    Condition(<<node.nid, "closeBrace">>, "closeBrace",
              [fn |-> "condition", condition |-> <<node.nid, "openBrace">>],
              <<closeBraceNewLine(node), Lit("}")>>, <<>>)

\* parseIfStatement.parseHeaderTrailingComment
parseHeaderTrailingComment(node) ==
    prependToIterableIfHasItems(
        <<YieldCommentCollection(getHeaderTrailingComments(node), Undefined)>>,
        Lit(" "))

parseIfStatement(node) ==
    LET requireBraces ==
            consequentRequiresBraces(node.consequent, getHeaderTrailingComments(node))
    IN <<createInfo(node.nid, "startHeader"), Lit("if ("), parseNode(node.test), Lit(")"),
         createInfo(node.nid, "endHeader"), openBraceCondition(node, requireBraces)>>
       \o parseHeaderTrailingComment(node)
       \o <<NewLine, createInfo(node.nid, "startStatements")>>
       \o (IF node.consequent.type = "BlockStatement"
           THEN withIndent(parseLeadingComments(node.consequent)
                           \o parseStatements(node.consequent))
                \o parseTrailingComments(node.consequent)
           ELSE withIndent(<<parseNode(node.consequent)>>))
       \o <<createInfo(node.nid, "endStatements"),
            closeBraceCondition(node, requireBraces)>>

(* expressions *)

parseCallExpression(node) ==
    <<parseNode(node.callee)>> \o parseParametersOrArguments(node.arguments)

(* literals *)

\* String.prototype.replace(/q/g, "\\q")
RECURSIVE EscapeQuote(_, _)
EscapeQuote(value, q) ==
    IF value = <<>> THEN <<>>
    ELSE (IF Head(value) = q THEN <<"\\", q>> ELSE <<Head(value)>>)
         \o EscapeQuote(Tail(value), q)

parseStringLiteral(node) ==
    <<Str(IF options["singleQuotes"]
          THEN <<"'">> \o EscapeQuote(node.value, "'") \o <<"'">>
          ELSE <<"\"">> \o EscapeQuote(node.value, "\"") \o <<"\"">>)>>

parseBooleanLiteral(node) == <<Lit(IF node.value THEN "true" ELSE "false")>>

(* types *)

parseTypeParameter(node) ==
    <<Lit(node.name)>>
    \o (IF node.constraint # Null
        THEN <<Lit(" extends "), parseNode(node.constraint)>> ELSE <<>>)
    \o (IF node.default # Null
        THEN <<Lit(" = "), parseNode(node.default)>> ELSE <<>>)

parseUnionType(node) ==
    LET useNewLines == getUseNewLinesForNodes(node.types) IN
    withHangingIndent(
        parseNodesSeparatedBy(
            node.types, <<IF useNewLines THEN NewLine ELSE SpaceOrNewLine, Lit("| ")>>))

(* general *)

Keywords ==
    [TSStringKeyword |-> "string", TSNumberKeyword |-> "number",
     TSBooleanKeyword |-> "boolean", TSAnyKeyword |-> "any",
     TSUnknownKeyword |-> "unknown", TSObjectKeyword |-> "object",
     ThisExpression |-> "this"]

\* The node kinds parseObj has a handler for.
HandlerTypes ==
    {"Program", "BlockStatement", "Identifier", "ExportNamedDeclaration",
     "FunctionDeclaration", "TSTypeAliasDeclaration", "ImportDeclaration",
     "ExpressionStatement", "IfStatement", "CallExpression",
     "ImportDefaultSpecifier", "ImportNamespaceSpecifier", "ImportSpecifier",
     "StringLiteral", "BooleanLiteral", "TSTypeParameter", "TSUnionType"}
    \cup DOMAIN Keywords

IsLineBreak(a) == a \in {"\n", "\r\n"}

\* The lines of a text: what lies between its line breaks.
RECURSIVE TextLines(_, _)
TextLines(text, line) ==
    IF text = <<>> THEN <<line>>
    ELSE IF IsLineBreak(Head(text)) THEN <<line>> \o TextLines(Tail(text), <<>>)
    ELSE TextLines(Tail(text), Append(line, Head(text)))

\* The width of the white space a line starts with.
Indentation(line) == Len(line) - Len(TrimStart(line))

\* removeStringIndentation(nodeText, ...): the indentation common to the
\* lines after the first (and to the first, if it starts with white space)
\* is taken off them; blank lines do not count.
removeStringIndentation(text) ==
    LET lines == TextLines(text, <<>>)
        breaks == SelectSeq(text, IsLineBreak)
        indented == {i \in DOMAIN lines :
                        /\ TrimStart(lines[i]) # <<>>
                        /\ i > 1 \/ IsSpace(Head(lines[i]))}
        widths == {Indentation(lines[i]) : i \in indented}
        minIndentWidth == IF widths = {} THEN 0
                          ELSE CHOOSE m \in widths : \A w \in widths : m <= w
    IN Concat([i \in DOMAIN lines |->
                  (IF i > 1 THEN <<breaks[i - 1]>> ELSE <<>>)
                  \o (IF i \in indented
                      THEN SubSeq(lines[i], minIndentWidth + 1, Len(lines[i]))
                      ELSE lines[i])])

\* context.fileText.substring(node.start, node.end)
nodeText(node) == SubSeq(fileText, node.start + 1, node.end)

\* `Not implemented node type: ${node.type} (${nodeText})`
notImplementedMessage(node) ==
    <<"Not implemented node type: ", node.type, " (">> \o nodeText(node) \o <<")">>

parseUnknownNodeNotDeindented(node) == <<Unknown(nodeText(node))>>

\* parseUnknownNode: the item it returns
parseUnknownNode(node) == <<Unknown(removeStringIndentation(nodeText(node)))>>

\* parseNode calls parseFunc(node, context) at once, before the items of the
\* group are drawn; of the handlers only parseUnknownNode then does
\* something: it calls context.log.
parseFunc(node, st) ==
    IF node.type \in HandlerTypes
    THEN st
    ELSE [st EXCEPT !.log = Append(@, notImplementedMessage(node))]

\* parseObj[node.type](node, context), or parseUnknownNode(node, context)
parseObj(node) ==
    CASE node.type = "Program" -> parseProgram(node)
      [] node.type = "BlockStatement" -> parseBlockStatement(node)
      [] node.type = "Identifier" -> parseIdentifier(node)
      [] node.type = "ExportNamedDeclaration" -> parseExportNamedDeclaration(node)
      [] node.type = "FunctionDeclaration" -> parseFunctionDeclaration(node)
      [] node.type = "TSTypeAliasDeclaration" -> parseTypeAlias(node)
      [] node.type = "ImportDeclaration" -> parseImportDeclaration(node)
      [] node.type = "ExpressionStatement" -> parseExpressionStatement(node)
      [] node.type = "IfStatement" -> parseIfStatement(node)
      [] node.type = "CallExpression" -> parseCallExpression(node)
      [] node.type = "ImportDefaultSpecifier" -> parseImportDefaultSpecifier(node)
      [] node.type = "ImportNamespaceSpecifier" -> parseImportNamespaceSpecifier(node)
      [] node.type = "ImportSpecifier" -> parseImportSpecifier(node)
      [] node.type = "StringLiteral" -> parseStringLiteral(node)
      [] node.type = "BooleanLiteral" -> parseBooleanLiteral(node)
      [] node.type \in DOMAIN Keywords -> <<Lit(Keywords[node.type])>>
      [] node.type = "TSTypeParameter" -> parseTypeParameter(node)
      [] node.type = "TSUnionType" -> parseUnionType(node)
      [] OTHER -> parseUnknownNode(node)

\* parseNode.getWithComments: the items of the Group parseNode returns
getWithComments(node) ==
    parseLeadingComments(node) \o parseObj(node) \o parseTrailingComments(node)

----------------------------------------------------------------------------
(* Drawing: the generators run, in the order of their items, sharing the   *)
(* context's handledComments.                                              *)

RECURSIVE Draw(_, _)

\* A Group whose items are the generator that gave r, yielded after st.
YieldGroup(st, r) == [r EXCEPT !.items = st.items \o <<Group(@)>>]

\* One item is drawn.  (The singleton sets name the value of a generator that
\* has run, so that it is computed once.)
DrawItem(item, st) ==
    CASE item.kind = "LazyGroup" ->
             CHOOSE out \in {YieldGroup(st, r) :
                                r \in {Draw(getWithComments(item.node),
                                            Sub(parseFunc(item.node, st)))}} : TRUE
      [] item.kind = "Group" ->
             CHOOSE out \in {YieldGroup(st, r) : r \in {Draw(item.items, Sub(st))}} : TRUE
      [] item.kind = "parseComment" -> parseComment(item.comment, st)
      [] item.kind = "parseCommentCollection" ->
             parseCommentCollection(item.comments, item.lastNode, st)
      [] item.kind = "prependToIterableIfHasItems" ->
             CHOOSE out \in {Then(st, prepended(r, item.item)) :
                                r \in {Draw(item.iterable, Sub(st))}} : TRUE
      [] OTHER -> Yield(st, <<item>>)

\* The items are drawn from the first to the last, each with the context the
\* ones before it left (by halves, which keeps the evaluation shallow).
Draw(items, st) ==
    IF Len(items) = 0 THEN st
    ELSE IF Len(items) = 1 THEN DrawItem(items[1], st)
    ELSE CHOOSE out \in {Draw(SubSeq(items, Len(items) \div 2 + 1, Len(items)), s) :
                            s \in {Draw(SubSeq(items, 1, Len(items) \div 2), st)}} : TRUE

----------------------------------------------------------------------------
(* Trees.  The constructors give every node the fields babel gives it.     *)

CommentAt(id, type, value, line) ==
    [id |-> id, type |-> type, value |-> value, line |-> line, endLine |-> line]

Identifier(name, line, start) ==
    [type |-> "Identifier", name |-> name, start |-> start, line |-> line,
     endLine |-> line, leadingComments |-> <<>>, trailingComments |-> <<>>,
     innerComments |-> <<>>]

StringLiteral(value, line) ==
    [type |-> "StringLiteral", value |-> value, line |-> line, endLine |-> line,
     leadingComments |-> <<>>, trailingComments |-> <<>>, innerComments |-> <<>>]

Keyword(type, line) ==
    [type |-> type, line |-> line, endLine |-> line,
     leadingComments |-> <<>>, trailingComments |-> <<>>, innerComments |-> <<>>]

LastLine(nodes, line) == IF nodes = <<>> THEN line ELSE nodes[Len(nodes)].endLine

CallExpression(callee, arguments) ==
    [type |-> "CallExpression", callee |-> callee, arguments |-> arguments,
     line |-> callee.line, endLine |-> LastLine(arguments, callee.line),
     leadingComments |-> <<>>, trailingComments |-> <<>>, innerComments |-> <<>>]

ExpressionStatement(expression, leading, trailing) ==
    [type |-> "ExpressionStatement", expression |-> expression,
     line |-> expression.line, endLine |-> expression.endLine,
     leadingComments |-> leading, trailingComments |-> trailing,
     innerComments |-> <<>>]

BlockStatement(body, line, endLine, leading, trailing, inner) ==
    [type |-> "BlockStatement", body |-> body, line |-> line, endLine |-> endLine,
     leadingComments |-> leading, trailingComments |-> trailing,
     innerComments |-> inner]

IfStatement(nid, test, consequent, line) ==
    [type |-> "IfStatement", nid |-> nid, test |-> test, consequent |-> consequent,
     alternate |-> Null, line |-> line, endLine |-> consequent.endLine,
     leadingComments |-> <<>>, trailingComments |-> <<>>, innerComments |-> <<>>]

TypeParameter(name, line) ==
    [type |-> "TSTypeParameter", name |-> name, constraint |-> Null, default |-> Null,
     line |-> line, endLine |-> line,
     leadingComments |-> <<>>, trailingComments |-> <<>>, innerComments |-> <<>>]

TypeParameterDeclaration(params, line, trailing) ==
    [type |-> "TSTypeParameterDeclaration", params |-> params,
     line |-> line, endLine |-> LastLine(params, line),
     leadingComments |-> <<>>, trailingComments |-> trailing, innerComments |-> <<>>]

FunctionDeclaration(nid, id, typeParameters, params, body, line) ==
    [type |-> "FunctionDeclaration", nid |-> nid, id |-> id, async |-> FALSE,
     generator |-> FALSE, typeParameters |-> typeParameters, params |-> params,
     returnType |-> Null, body |-> body, line |-> line, endLine |-> body.endLine,
     leadingComments |-> <<>>, trailingComments |-> <<>>, innerComments |-> <<>>]

TypeAlias(id, typeParameters, typeAnnotation) ==
    [type |-> "TSTypeAliasDeclaration", id |-> id, typeParameters |-> typeParameters,
     typeAnnotation |-> typeAnnotation, line |-> id.line,
     endLine |-> typeAnnotation.endLine,
     leadingComments |-> <<>>, trailingComments |-> <<>>, innerComments |-> <<>>]

UnionType(types, line) ==
    [type |-> "TSUnionType", types |-> types, line |-> line,
     endLine |-> LastLine(types, line),
     leadingComments |-> <<>>, trailingComments |-> <<>>, innerComments |-> <<>>]

ImportSpecifier(name, line, start) ==
    [type |-> "ImportSpecifier", imported |-> Identifier(name, line, start),
     local |-> Identifier(name, line, start), line |-> line, endLine |-> line,
     leadingComments |-> <<>>, trailingComments |-> <<>>, innerComments |-> <<>>]

ImportDeclaration(specifiers, source, line) ==
    [type |-> "ImportDeclaration", specifiers |-> specifiers, source |-> source,
     line |-> line, endLine |-> source.line,
     leadingComments |-> <<>>, trailingComments |-> <<>>, innerComments |-> <<>>]

Program(body, inner) ==
    [type |-> "Program", body |-> body, line |-> 1, endLine |-> LastLine(body, 1),
     leadingComments |-> <<>>, trailingComments |-> <<>>, innerComments |-> inner]

\* The babel.File: its program.
File(program) == [program |-> program]

----------------------------------------------------------------------------
(* The trees the model translates.                                         *)

\* `a();` on one line
SimpleCall(name, line) == CallExpression(Identifier(name, line, 0), <<>>)

\* `f(a, b)`: the arguments on lines[1], lines[2], ...
ElementNames == <<"a", "b", "c", "d", "e", "g">>

CallWith(name, line, lines) ==
    CallExpression(Identifier(name, line, 0),
                   [j \in DOMAIN lines |-> Identifier(ElementNames[j], lines[j], j)])

(* Statement sequences: n statements, the i-th on line i. *)

StatementKinds == {"ExpressionStatement", "FunctionDeclaration", "IfStatement"}

StatementOfKind(kind, i) ==
    CASE kind = "ExpressionStatement" ->
             ExpressionStatement(SimpleCall("a", i), <<>>, <<>>)
      [] kind = "FunctionDeclaration" ->
             FunctionDeclaration(i, Identifier("f", i, 0), Null, <<>>,
                                 BlockStatement(<<>>, i, i, <<>>, <<>>, <<>>), i)
      [] kind = "IfStatement" ->
             IfStatement(i, Identifier("x", i, 0),
                         ExpressionStatement(SimpleCall("a", i), <<>>, <<>>), i)

SequenceFiles ==
    {File(Program([i \in DOMAIN kinds |-> StatementOfKind(kinds[i], i)], <<>>)) :
        kinds \in UNION {[1..n -> StatementKinds] : n \in 0..MaxStatements}}

(* Comments after a statement: `a();` on line 1, one or two comments after *)
(* it, and perhaps a second statement, which babel gives the same comments *)
(* as its leading comments.                                                *)

CommentTypes == {"CommentLine", "CommentBlock"}

\* One or two comments in source order; nothing follows a line comment on its line.
CommentRuns ==
    {<<CommentAt(1, t1, <<" ", "c1", " ">>, l1)>> : t1 \in CommentTypes, l1 \in Lines}
    \cup
    {<<CommentAt(1, c[1], <<" ", "c1", " ">>, c[2]), CommentAt(2, c[3], <<"c2">>, c[4])>> :
        c \in {d \in CommentTypes \X Lines \X CommentTypes \X Lines :
                  /\ d[2] <= d[4]
                  /\ d[1] = "CommentLine" => d[2] < d[4]}}

CommentFiles ==
    {File(Program(<<ExpressionStatement(SimpleCall("a", 1), <<>>, run)>>, <<>>)) :
        run \in CommentRuns}
    \cup
    {File(Program(<<ExpressionStatement(SimpleCall("a", 1), <<>>, run),
                    ExpressionStatement(SimpleCall("b", MaxLine + 1), run, <<>>)>>,
                  <<>>)) :
        run \in CommentRuns}

(* Delimited lists: one statement holding one list, the statement on line  *)
(* 1 and the elements on lines that do not decrease.                       *)

ListKinds == {"import", "call", "typeParameters", "union"}

ElementLines ==
    {lines \in UNION {[1..k -> Lines] : k \in 1..MaxElements} :
        \A j \in 1..(Len(lines) - 1) : lines[j] <= lines[j + 1]}

ListStatement(kind, lines) ==
    CASE kind = "import" ->
             ImportDeclaration(
                 [j \in DOMAIN lines |-> ImportSpecifier(ElementNames[j], lines[j], j)],
                 StringLiteral(<<"x">>, lines[Len(lines)]), 1)
      [] kind = "call" ->
             ExpressionStatement(CallWith("f", 1, lines), <<>>, <<>>)
      [] kind = "typeParameters" ->
             TypeAlias(Identifier("A", 1, 0),
                       TypeParameterDeclaration(
                           [j \in DOMAIN lines |-> TypeParameter(ElementNames[j], lines[j])],
                           1, <<>>),
                       Keyword("TSStringKeyword", lines[Len(lines)]))
      [] kind = "union" ->
             TypeAlias(Identifier("A", 1, 0), Null,
                       UnionType([j \in DOMAIN lines |-> Keyword("TSAnyKeyword", lines[j])],
                                 lines[1]))

ListFiles ==
    {File(Program(<<ListStatement(kind, lines)>>, <<>>)) :
        kind \in ListKinds, lines \in ElementLines}

(* If statements: `if (<test>) <consequent>` on line 1.                    *)

TestKinds == {"identifier", "call", "callOnTwoLines"}

TestOfKind(kind) ==
    CASE kind = "identifier" -> Identifier("x", 1, 0)
      [] kind = "call" -> CallWith("f", 1, <<1, 1>>)
      [] kind = "callOnTwoLines" -> CallWith("f", 1, <<1, 2>>)

ConsequentKinds == {"statement", "statementOnTwoLines", "block0", "block1", "block2"}
IfCommentKinds == {"none", "sameLine", "ownLine"}

\* The comment of an if statement's consequent that starts on `line`.
IfComment(kind, line) ==
    IF kind = "none" THEN <<>>
    ELSE IF kind = "sameLine" THEN <<CommentAt(1, "CommentBlock", <<"c1">>, line)>>
    ELSE <<CommentAt(1, "CommentLine", <<"c1">>, line)>>

\* The consequent after a header that ends on `line`; its comment is on the
\* line the consequent starts on ("sameLine") or on its own line, line + 1,
\* before the first statement ("ownLine").
ConsequentOfKind(kind, comment, line) ==
    LET own == IF comment = "ownLine" THEN 1 ELSE 0
        c == IfComment(comment, line + own)
    IN CASE kind = "statement" ->
                ExpressionStatement(SimpleCall("a", line + 2 * own), c, <<>>)
         [] kind = "statementOnTwoLines" ->
                ExpressionStatement(CallWith("a", line + 2 * own,
                                             <<line + 2 * own, line + 2 * own + 1>>),
                                    c, <<>>)
         [] kind = "block0" ->
                BlockStatement(<<>>, line, line + 2 * own, <<>>, <<>>, c)
         [] kind = "block1" ->
                BlockStatement(<<ExpressionStatement(SimpleCall("a", line + own + 1), c, <<>>)>>,
                               line, line + own + 2, <<>>, <<>>, <<>>)
         [] kind = "block2" ->
                BlockStatement(<<ExpressionStatement(SimpleCall("a", line + own + 1), c, <<>>),
                                 ExpressionStatement(SimpleCall("b", line + own + 2),
                                                     <<>>, <<>>)>>,
                               line, line + own + 3, <<>>, <<>>, <<>>)

IfFiles ==
    {File(Program(<<IfStatement(1, TestOfKind(t),
                                ConsequentOfKind(k, c, IF t = "callOnTwoLines" THEN 2 ELSE 1),
                                1)>>, <<>>)) :
        t \in TestKinds, k \in ConsequentKinds, c \in IfCommentKinds}

(* Comments on nodes the translator reaches without parseNode.             *)

\* `function f<a>/* c1 */() {}`: the comment trails the type parameter declaration
\* `function f() {} // c1`: the comment trails the body on the line the body starts on
AttachedCommentFiles ==
    {File(Program(<<FunctionDeclaration(
                        1, Identifier("f", 1, 0),
                        TypeParameterDeclaration(
                            <<TypeParameter("a", 1)>>, 1,
                            <<CommentAt(1, "CommentBlock", <<"c1">>, 1)>>),
                        <<>>, BlockStatement(<<>>, 1, 1, <<>>, <<>>, <<>>), 1)>>, <<>>)),
     File(Program(<<FunctionDeclaration(
                        1, Identifier("f", 1, 0), Null, <<>>,
                        BlockStatement(<<>>, 1, 1, <<>>,
                                       <<CommentAt(1, "CommentLine", <<"c1">>, 1)>>, <<>>),
                        1)>>, <<>>))}

Files == SequenceFiles \cup CommentFiles \cup ListFiles \cup IfFiles
             \cup AttachedCommentFiles

(* Nodes without a handler.  A source is a file and its text; a node       *)
(* without a handler has its offsets in the text, start and end, counted   *)
(* in atoms.  The statements are one after another, a line break between   *)
(* two of them.                                                            *)

Source(tree, text) == [file |-> tree, fileText |-> text]

UnknownKinds == {"call", "binary", "declaration", "declarationOnTwoLines",
                 "declarationOnThreeLines"}

\* The text of a statement.
StatementText(kind) ==
    CASE kind = "call" -> <<"a", "(", ")", ";">>
      [] kind = "binary" -> <<"a", " + ", "b", ";">>
      [] kind = "declaration" -> <<"let b =", " ", "c--", ";">>
      [] kind = "declarationOnTwoLines" -> <<"let b =", "\n", " ", " ", "c--", ";">>
      [] kind = "declarationOnThreeLines" ->
             <<"let b =", "\n", " ", " ", " ", " ", "c--", "\n", " ", " ", ";">>

\* A node without a handler: its type, its span and its children.
UnknownNode(type, start, end, line, endLine, children) ==
    [type |-> type, start |-> start, end |-> end, line |-> line, endLine |-> endLine,
     children |-> children,
     leadingComments |-> <<>>, trailingComments |-> <<>>, innerComments |-> <<>>]

\* The statement of a kind whose text starts at offset start, on line `line`:
\* `a();`, `a + b;` (the BinaryExpression has no handler), or a
\* VariableDeclaration (no handler) whose declarator holds an UpdateExpression
\* (no handler either).
UnknownStatementOfKind(kind, start, line) ==
    LET text == StatementText(kind)
        endLine == line + Len(SelectSeq(text, IsLineBreak))
    IN CASE kind = "call" -> ExpressionStatement(SimpleCall("a", line), <<>>, <<>>)
         [] kind = "binary" ->
                ExpressionStatement(
                    UnknownNode("BinaryExpression", start, start + 3, line, line,
                                <<Identifier("a", line, start),
                                  Identifier("b", line, start + 2)>>),
                    <<>>, <<>>)
         [] OTHER ->
                UnknownNode("VariableDeclaration", start, start + Len(text), line, endLine,
                            <<UnknownNode("UpdateExpression",
                                          start + Len(text) - 2, start + Len(text) - 1,
                                          endLine, endLine, <<>>)>>)

RECURSIVE StartOf(_, _)
StartOf(kinds, i) ==
    IF i = 1 THEN 0 ELSE StartOf(kinds, i - 1) + Len(StatementText(kinds[i - 1])) + 1

RECURSIVE LineOf(_, _)
LineOf(kinds, i) ==
    IF i = 1 THEN 1
    ELSE LineOf(kinds, i - 1)
         + Len(SelectSeq(StatementText(kinds[i - 1]), IsLineBreak)) + 1

UnknownSource(kinds) ==
    Source(File(Program([i \in DOMAIN kinds |->
                            UnknownStatementOfKind(kinds[i], StartOf(kinds, i),
                                                   LineOf(kinds, i))],
                        <<>>)),
           Concat([i \in DOMAIN kinds |->
                      (IF i > 1 THEN <<"\n">> ELSE <<>>) \o StatementText(kinds[i])]))

UnknownSources ==
    {UnknownSource(kinds) :
        kinds \in {ks \in UNION {[1..n -> UnknownKinds] : n \in 1..MaxStatements} :
                      \E i \in DOMAIN ks : ks[i] # "call"}}

\* The sources the model translates.  The text of a file is read for the
\* nodes without a handler only; the families without such nodes carry none.
Sources == {Source(tree, <<>>) : tree \in Files} \cup UnknownSources

----------------------------------------------------------------------------
(* The configuration (../configuration: ResolvedConfiguration).            *)

LineWidths == {10, 80}

Options(lineWidth) ==
    [lineWidth |-> lineWidth, indentWidth |-> 4, useTabs |-> FALSE,
     singleQuotes |-> FALSE]
    @@ ("importDeclaration.semiColon" :> TRUE)
    @@ ("typeAlias.semiColon" :> TRUE)
    @@ ("expressionStatement.semiColon" :> TRUE)

NewLineKinds == {"\n", "\r\n"}

----------------------------------------------------------------------------
(* The translation of a file.  parseFile builds the context; the items of  *)
(* the program's group are then drawn: parseStatements yields, for each    *)
(* statement, its separator and the Group parseNode returns, whose items   *)
(* are a generator that runs only when the group is drawn.                 *)

\* parseFile: the end-of-file condition
endOfFileNewLine ==
    Condition(<<0, "endOfFileNewLine">>, "endOfFileNewLine",
              [fn |-> "endOfFileNewLine"], <<NewLine>>, <<>>)

parseFileWithoutCondition == <<Group(programItems)>>

\* parseFile: the items of the Group it returns
parseFile == <<Group(programItems), endOfFileNewLine>>

Statements == file.program.body

\* getWithComments(program): parseLeadingComments, before parseProgram runs
BeginProgram ==
    /\ phase = "start"
    /\ LET l == Draw(parseLeadingComments(file.program), R(<<>>, handledComments)) IN
       /\ programItems' = l.items
       /\ handledComments' = l.handled
       /\ log' = log \o l.log
    /\ phase' = "parse"
    /\ UNCHANGED <<wasm, file, fileText, newLineKind, options, nextStatement, pending, todo, writer,
                   output, resolvedInfos, resolvedConditions, groupModes>>

\* parseStatements: one round of the loop
YieldStatement ==
    /\ phase = "parse"
    /\ nextStatement < Len(Statements)
    /\ LET i == nextStatement + 1
           separator == IF i > 1 THEN statementSeparator(Statements, i) ELSE <<>>
       IN /\ programItems' = programItems \o separator \o <<parseNode(Statements[i])>>
          /\ pending' = pending \cup {Len(programItems) + Len(separator) + 1}
          /\ log' = log \o parseFunc(Statements[i], R(<<>>, handledComments)).log
    /\ nextStatement' = nextStatement + 1
    /\ UNCHANGED <<wasm, file, fileText, newLineKind, options, handledComments, phase, todo, writer,
                   output, resolvedInfos, resolvedConditions, groupModes>>

\* The items of a yielded group are drawn: getWithComments runs
DrawGroup(i) ==
    /\ i \in pending
    /\ LET g == Draw(getWithComments(programItems[i].node), R(<<>>, handledComments)) IN
       /\ programItems' = [programItems EXCEPT ![i] = Group(g.items)]
       /\ handledComments' = g.handled
       /\ log' = log \o g.log
    /\ pending' = pending \ {i}
    /\ UNCHANGED <<wasm, file, fileText, newLineKind, options, phase, nextStatement, todo, writer,
                   output, resolvedInfos, resolvedConditions, groupModes>>

\* parseStatements after the loop (innerComments), then getWithComments(program):
\* parseTrailingComments
EndProgram ==
    /\ phase = "parse"
    /\ nextStatement = Len(Statements)
    /\ LET t == Draw(<<YieldCommentCollection(file.program.innerComments, Undefined)>>
                         \o parseTrailingComments(file.program),
                     R(programItems, handledComments))
       IN /\ programItems' = t.items
          /\ handledComments' = t.handled
          /\ log' = log \o t.log
    /\ phase' = "parsed"
    /\ UNCHANGED <<wasm, file, fileText, newLineKind, options, nextStatement, pending, todo, writer,
                   output, resolvedInfos, resolvedConditions, groupModes>>

InitialWriter ==
    [lineNumber |-> 0, columnNumber |-> 0, indentLevel |-> 0, hangingLevel |-> 0,
     lineStartIndentLevel |-> 0, expectNewLine |-> FALSE]

Init ==
    /\ \E source \in Sources : file = source.file /\ fileText = source.fileText
    /\ log = <<>>
    /\ NoFormatter
    /\ newLineKind \in NewLineKinds
    /\ options \in {Options(w) : w \in LineWidths}
    /\ handledComments = {}
    /\ phase = "start"
    /\ nextStatement = 0
    /\ programItems = <<>>
    /\ pending = {}
    /\ todo = <<>>
    /\ writer = InitialWriter
    /\ output = <<>>
    /\ resolvedInfos = <<>>
    /\ resolvedConditions = <<>>
    /\ groupModes = <<>>

----------------------------------------------------------------------------
(* The predicates of the conditions (parser.ts).  A resolution context is  *)
(* the writer info and the table of resolved Infos.                        *)

IsResolved(infos, info) == info \in DOMAIN infos

isMultipleLines(startInfo, endInfo, infos, defaultValue) ==
    IF ~IsResolved(infos, startInfo) \/ ~IsResolved(infos, endInfo)
    THEN defaultValue
    ELSE infos[endInfo].lineNumber > infos[startInfo].lineNumber

areInfoEqual(startInfo, endInfo, infos, defaultValue) ==
    IF ~IsResolved(infos, startInfo) \/ ~IsResolved(infos, endInfo)
    THEN defaultValue
    ELSE /\ infos[startInfo].lineNumber = infos[endInfo].lineNumber
         /\ infos[startInfo].columnNumber = infos[endInfo].columnNumber

Tri(b) == IF b THEN "true" ELSE "false"

\* condition.condition(conditionContext): "true", "false" or "undefined"
conditionValue(c, writerInfo, infos, conditions) ==
    CASE c.fn = "endOfFileNewLine" ->
             Tri(writerInfo.columnNumber > 0 \/ writerInfo.lineNumber > 0)
      [] c.fn = "isHanging" ->
             IF ~IsResolved(infos, c.info)
             THEN "undefined"
             ELSE Tri(writerInfo.lineStartIndentLevel > infos[c.info].lineStartIndentLevel)
      [] c.fn = "openBrace" ->
             Tri(\/ c.requireBraces
                 \/ isMultipleLines(c.startHeader, c.endHeader, infos, FALSE)
                 \/ isMultipleLines(c.startStatements, c.endStatements, infos, FALSE))
      [] c.fn = "notAreInfoEqual" ->
             Tri(~areInfoEqual(c.startInfo, c.endInfo, infos, FALSE))
      [] c.fn = "condition" ->
             IF c.condition \in DOMAIN conditions
             THEN Tri(conditions[c.condition])
             ELSE "undefined"

----------------------------------------------------------------------------
(* The resolution engine: the writer and the printer.                      *)

IsNewLine(a) == a \in NewLineKinds

\* One level of indentation (useTabs is false): indentWidth spaces.
IndentText == "    "

\* The indentation a line started now gets.
IndentNow(w) == w.indentLevel + w.hangingLevel

\* The writer info a condition or an Info sees.
WriterInfo(w) ==
    [lineNumber |-> w.lineNumber, columnNumber |-> w.columnNumber,
     indentLevel |-> w.indentLevel,
     lineStartIndentLevel |->
         IF w.columnNumber = 0 THEN IndentNow(w) ELSE w.lineStartIndentLevel]

W(w, out) == [writer |-> w, output |-> out]

WriteNewLine(st, a) ==
    W([st.writer EXCEPT !.lineNumber = @ + 1, !.columnNumber = 0,
                        !.expectNewLine = FALSE],
      Append(st.output, a))

\* The indentation, written before the first text of a line.
WriteIndentation(st) ==
    IF st.writer.columnNumber > 0
    THEN st
    ELSE W([st.writer EXCEPT !.lineStartIndentLevel = IndentNow(st.writer),
                             !.columnNumber = IndentNow(st.writer) * options.indentWidth],
           st.output \o [k \in 1..IndentNow(st.writer) |-> IndentText])

WriteAtom(st, a) ==
    IF IsNewLine(a)
    THEN WriteNewLine(st, a)
    ELSE LET s1 == IF st.writer.expectNewLine THEN WriteNewLine(st, newLineKind) ELSE st
             s2 == WriteIndentation(s1)
         IN W([s2.writer EXCEPT !.columnNumber = @ + Len(a)], Append(s2.output, a))

RECURSIVE WriteText(_, _)
WriteText(st, text) ==
    IF text = <<>> THEN st ELSE WriteText(WriteAtom(st, Head(text)), Tail(text))

GroupEnd == [kind |-> "GroupEnd"]

\* The flat trial of a group: a forced line break in it, and its width with
\* every SpaceOrNewLine a space.
RECURSIVE HasHardNewLine(_)
HasHardNewLine(items) ==
    \E i \in DOMAIN items :
        \/ items[i].kind \in {"String", "Unknown"} /\ \E j \in DOMAIN items[i].text : IsNewLine(items[i].text[j])
        \/ items[i].kind = "Group" /\ HasHardNewLine(items[i].items)

RECURSIVE FlatWidth(_)
FlatWidth(items) ==
    IF items = <<>> THEN 0
    ELSE LET item == Head(items) IN
         (CASE item.kind \in {"String", "Unknown"} -> SumLen(item.text)
            [] item.kind = "Group" -> FlatWidth(item.items)
            [] item = SpaceOrNewLine -> 1
            [] OTHER -> 0)
         + FlatWidth(Tail(items))

FlatTrial(w, items) ==
    /\ ~HasHardNewLine(items)
    /\ (IF w.columnNumber = 0 THEN IndentNow(w) * options.indentWidth ELSE w.columnNumber)
           + FlatWidth(items) <= options.lineWidth

\* The root Group of the file is handed to the printer.
StartPrint ==
    /\ phase = "parsed"
    /\ pending = {}
    /\ todo' = parseFile
    /\ phase' = "print"
    /\ UNCHANGED <<wasm, file, fileText, log, newLineKind, options, handledComments, nextStatement,
                   programItems, pending, writer, output, resolvedInfos,
                   resolvedConditions, groupModes>>

Printing(kind) == phase = "print" /\ todo # <<>> /\ Head(todo).kind = kind

PrintString ==
    /\ Printing("String")
    /\ LET st == WriteText(W(writer, output), Head(todo).text) IN
       /\ writer' = st.writer
       /\ output' = st.output
    /\ todo' = Tail(todo)
    /\ UNCHANGED <<wasm, file, fileText, log, newLineKind, options, handledComments, phase, nextStatement,
                   programItems, pending, resolvedInfos, resolvedConditions, groupModes>>

\* The text of an Unknown item is written as it is.
PrintUnknown ==
    /\ Printing("Unknown")
    /\ LET st == WriteText(W(writer, output), Head(todo).text) IN
       /\ writer' = st.writer
       /\ output' = st.output
    /\ todo' = Tail(todo)
    /\ UNCHANGED <<wasm, file, fileText, log, newLineKind, options, handledComments, phase,
                   nextStatement, programItems, pending, resolvedInfos,
                   resolvedConditions, groupModes>>

PrintBehaviour ==
    /\ Printing("Behaviour")
    /\ LET b == Head(todo).behaviour
           flat == groupModes # <<>> /\ Head(groupModes)
           st == CASE b = "SpaceOrNewLine" ->
                          WriteAtom(W(writer, output), IF flat THEN " " ELSE newLineKind)
                   [] b = "ExpectNewLine" ->
                          W([writer EXCEPT !.expectNewLine = TRUE], output)
                   [] b = "StartIndent" ->
                          W([writer EXCEPT !.indentLevel = @ + 1], output)
                   [] b = "FinishIndent" ->
                          W([writer EXCEPT !.indentLevel = @ - 1], output)
                   [] b = "StartHangingIndent" ->
                          W([writer EXCEPT !.hangingLevel = @ + 1], output)
                   [] b = "FinishHangingIndent" ->
                          W([writer EXCEPT !.hangingLevel = @ - 1], output)
       IN /\ writer' = st.writer
          /\ output' = st.output
    /\ todo' = Tail(todo)
    /\ UNCHANGED <<wasm, file, fileText, log, newLineKind, options, handledComments, phase, nextStatement,
                   programItems, pending, resolvedInfos, resolvedConditions, groupModes>>

\* An Info is resolved, once, when the cursor passes it.
PrintInfo ==
    /\ Printing("Info")
    /\ resolvedInfos' =
           IF Head(todo).id \in DOMAIN resolvedInfos
           THEN resolvedInfos
           ELSE (Head(todo).id :> WriterInfo(writer)) @@ resolvedInfos
    /\ todo' = Tail(todo)
    /\ UNCHANGED <<wasm, file, fileText, log, newLineKind, options, handledComments, phase, nextStatement,
                   programItems, pending, writer, output, resolvedConditions, groupModes>>

\* A Condition is evaluated when the cursor reaches it, with the table as it
\* stands; "undefined" takes the false branch.
PrintCondition ==
    /\ Printing("Condition")
    /\ LET c == Head(todo)
           value == conditionValue(c.condition, WriterInfo(writer), resolvedInfos,
                                   resolvedConditions)
       IN /\ resolvedConditions' = (c.id :> (value = "true")) @@ resolvedConditions
          /\ todo' = (IF value = "true" THEN c.true ELSE c.false) \o Tail(todo)
    /\ UNCHANGED <<wasm, file, fileText, log, newLineKind, options, handledComments, phase, nextStatement,
                   programItems, pending, writer, output, resolvedInfos, groupModes>>

\* A Group is committed flat when its flat trial fits, expanded otherwise.
PrintGroup ==
    /\ Printing("Group")
    /\ groupModes' = <<FlatTrial(writer, Head(todo).items)>> \o groupModes
    /\ todo' = Head(todo).items \o <<GroupEnd>> \o Tail(todo)
    /\ UNCHANGED <<wasm, file, fileText, log, newLineKind, options, handledComments, phase, nextStatement,
                   programItems, pending, writer, output, resolvedInfos,
                   resolvedConditions>>

FinishGroup ==
    /\ Printing("GroupEnd")
    /\ groupModes' = Tail(groupModes)
    /\ todo' = Tail(todo)
    /\ UNCHANGED <<wasm, file, fileText, log, newLineKind, options, handledComments, phase, nextStatement,
                   programItems, pending, writer, output, resolvedInfos,
                   resolvedConditions>>

Finish ==
    /\ phase = "print"
    /\ todo = <<>>
    /\ phase' = "done"
    /\ UNCHANGED <<wasm, file, fileText, log, newLineKind, options, handledComments, nextStatement,
                   programItems, pending, todo, writer, output, resolvedInfos,
                   resolvedConditions, groupModes>>

Next ==
    \/ BeginProgram
    \/ YieldStatement
    \/ \E i \in pending : DrawGroup(i)
    \/ EndProgram
    \/ StartPrint
    \/ PrintString
    \/ PrintUnknown
    \/ PrintBehaviour
    \/ PrintInfo
    \/ PrintCondition
    \/ PrintGroup
    \/ FinishGroup
    \/ Finish

Spec == Init /\ [][Next]_vars

----------------------------------------------------------------------------
(* The formatter's behaviours.                                             *)

\* No file: the state of the translation's variables while a formatter is used.
NoTranslation ==
    /\ file = File(Program(<<>>, <<>>))
    /\ fileText = <<>>
    /\ log = <<>>
    /\ newLineKind = "\n"
    /\ options = Options(80)
    /\ handledComments = {}
    /\ phase = "start"
    /\ nextStatement = 0
    /\ programItems = <<>>
    /\ pending = {}
    /\ todo = <<>>
    /\ writer = InitialWriter
    /\ output = <<>>
    /\ resolvedInfos = <<>>
    /\ resolvedConditions = <<>>
    /\ groupModes = <<>>

\* A plugin is instantiated; no formatter is created yet.
FormatterInit ==
    /\ pluginSchemaVersion \in PluginSchemaVersions
    /\ memoryBufferSize \in BufferSizes
    /\ sharedBytes = <<>>
    /\ memoryBuffer = [i \in 1..memoryBufferSize |-> 0]
    /\ formatter = ""
    /\ bufferSize = 0
    /\ configSet = FALSE
    /\ operation = NoOperation
    /\ operations = 0
    /\ configured = FALSE
    /\ NoTranslation

FormatterNext ==
    \/ CreateFromInstance
    \/ CreateFromBuffer
    \/ CreateStreaming
    \/ SetConfig
    \/ GetConfigDiagnostics
    \/ GetResolvedConfig
    \/ GetPluginInfo
    \/ FormatText

FormatterSpec == FormatterInit /\ [][FormatterNext]_vars

----------------------------------------------------------------------------
(* What is observed of a run.                                              *)

\* The items of a document in the order the printer meets them, the groups
\* opened up; a group not yet drawn is one item.
RECURSIVE Flatten(_)
Flatten(items) ==
    IF items = <<>> THEN <<>>
    ELSE (IF Head(items).kind = "Group" THEN Flatten(Head(items).items)
          ELSE <<Head(items)>>)
         \o Flatten(Tail(items))

\* The document of the program as far as it has been drawn.
Document == Flatten(programItems)

\* The program's statements have all been yielded and every group drawn.
Drawn == phase = "parsed" /\ pending = {}

Count(s, x) == Cardinality({i \in DOMAIN s : s[i] = x})

\* The child nodes of a node, in source order.
Children(node) ==
    SelectSeq(
        CASE node.type \in {"Program", "BlockStatement"} -> node.body
          [] node.type = "ExpressionStatement" -> <<node.expression>>
          [] node.type = "CallExpression" -> <<node.callee>> \o node.arguments
          [] node.type = "IfStatement" -> <<node.test, node.consequent, node.alternate>>
          [] node.type = "FunctionDeclaration" ->
                 <<node.id, node.typeParameters>> \o node.params
                 \o <<node.returnType, node.body>>
          [] node.type = "TSTypeParameterDeclaration" -> node.params
          [] node.type = "TSTypeParameter" -> <<node.constraint, node.default>>
          [] node.type = "TSTypeAliasDeclaration" ->
                 <<node.id, node.typeParameters, node.typeAnnotation>>
          [] node.type = "TSUnionType" -> node.types
          [] node.type = "ImportDeclaration" -> node.specifiers \o <<node.source>>
          [] node.type = "ImportSpecifier" -> <<node.imported, node.local>>
          [] OTHER -> <<>>,
        LAMBDA n : n # Null)

\* The nodes of the tree under a node, the node included.
RECURSIVE NodesIn(_)
NodesIn(node) == {node} \cup UNION {NodesIn(child) : child \in Range(Children(node))}

\* The comments attached to the nodes of the file.
CommentsOfFile ==
    UNION {Range(n.leadingComments) \cup Range(n.trailingComments)
               \cup Range(n.innerComments) : n \in NodesIn(file.program)}

\* The item that carries a comment's text in the document.
CommentText(comment) ==
    IF comment.type = "CommentBlock"
    THEN Str(comment.value)
    ELSE Str(<<"// ">> \o Trim(comment.value))

\* How many times the comment has been emitted into the document.
Emissions(comment) == Count(Document, CommentText(comment))

----------------------------------------------------------------------------
(* C1.                                                                     *)

\* C1: in every state of the translation, in whatever order the groups of
\* the statements have been drawn, no comment of the file has been emitted
\* more than once, and every comment emitted is in handledComments.
NoCommentEmittedTwice ==
    \A comment \in CommentsOfFile :
        /\ Emissions(comment) <= 1
        /\ Emissions(comment) = 1 => comment.id \in handledComments

\* A comment listed as trailing comment of the first statement and as leading
\* comment of the second has been emitted once, by the second statement's
\* group (drawn before the first one's), and skipped by the first.
SharedCommentEmittedOnce ==
    /\ Drawn
    /\ Len(Statements) = 2
    /\ \E comment \in Range(Statements[1].trailingComments)
                          \cap Range(Statements[2].leadingComments) :
           /\ Emissions(comment) = 1
           /\ Count(Flatten(<<programItems[Len(programItems)]>>),
                    CommentText(comment)) = 1

----------------------------------------------------------------------------
(* C2.                                                                     *)

\* C2 (as the specification states it): once the document is drawn, every
\* comment attached to a node of the file has been emitted exactly once.
CommentConservation ==
    Drawn => \A comment \in CommentsOfFile : Emissions(comment) = 1

----------------------------------------------------------------------------
(* C3, C4.                                                                 *)

\* The delimited list a statement holds, if it holds one.
ListElements(statement) ==
    CASE statement.type = "ImportDeclaration" -> statement.specifiers
      [] /\ statement.type = "ExpressionStatement"
         /\ statement.expression.type = "CallExpression" ->
             statement.expression.arguments
      [] /\ statement.type = "TSTypeAliasDeclaration"
         /\ statement.typeParameters # Null ->
             statement.typeParameters.params
      [] /\ statement.type = "TSTypeAliasDeclaration"
         /\ statement.typeAnnotation.type = "TSUnionType" ->
             statement.typeAnnotation.types
      [] OTHER -> <<>>

\* The file is one statement that holds a list, and its document is drawn.
ListDrawn ==
    /\ Drawn
    /\ Len(Statements) = 1
    /\ ListElements(Statements[1]) # <<>>

\* The multi-line layout has been chosen: the document forces line breaks.
MultiLineLayout == Count(Document, NewLine) > 0

FirstTwoOnDifferentLines(elements) ==
    Len(elements) >= 2 /\ elements[1].line # elements[2].line

\* C3 (amended): the multi-line layout is chosen exactly when the first two
\* elements of the list start on different lines or, for an import specifier
\* list only, the single element is not on the line of the declaration; a
\* single parameter, argument, type parameter or union member gets the
\* single-line-eligible layout whatever its line.
MultiLineLayoutChoice ==
    ListDrawn =>
        LET statement == Statements[1]
            elements == ListElements(statement)
        IN MultiLineLayout <=>
               \/ FirstTwoOnDifferentLines(elements)
               \/ /\ statement.type = "ImportDeclaration"
                  /\ Len(elements) = 1
                  /\ elements[1].line # statement.line

\* A call whose single argument is not on the line the call opens on has
\* been given the single-line-eligible layout.
SingleArgumentOnOtherLineSingleLine ==
    /\ ListDrawn
    /\ Statements[1].type = "ExpressionStatement"
    /\ Len(ListElements(Statements[1])) = 1
    /\ ListElements(Statements[1])[1].line # Statements[1].line
    /\ ~MultiLineLayout

\* C3 (as the specification states it): a single-element list of any kind is
\* multi-line exactly when its element is not on the opening line.
MultiLineLayoutChoiceAsStated ==
    ListDrawn =>
        LET statement == Statements[1]
            elements == ListElements(statement)
        IN MultiLineLayout <=>
               \/ FirstTwoOnDifferentLines(elements)
               \/ Len(elements) = 1 /\ elements[1].line # statement.line

\* C4 (as the specification states it): a list whose first two elements start
\* on different lines is put in a StartIndent/FinishIndent scope, its
\* elements separated by hard newlines and never by SpaceOrNewLine.
LinePreservation ==
    (ListDrawn /\ FirstTwoOnDifferentLines(ListElements(Statements[1]))) =>
        /\ Count(Document, StartIndent) = 1
        /\ Count(Document, FinishIndent) = 1
        /\ Count(Document, SpaceOrNewLine) = 0
        /\ Count(Document, NewLine) >= Len(ListElements(Statements[1])) - 1

----------------------------------------------------------------------------
(* C5, C6, C7: if statements.                                              *)

\* The if statements among the program's statements.
IfStatements == {s \in Range(Statements) : s.type = "IfStatement"}

\* The outcome the printer recorded for a condition of an if statement.
Outcome(statement, name) == resolvedConditions[<<statement.nid, name>>]

Evaluated(statement, name) == <<statement.nid, name>> \in DOMAIN resolvedConditions

\* The two Infos of an if statement are resolved, to positions on different lines.
OnDifferentLines(statement, startInfo, endInfo) ==
    /\ <<statement.nid, startInfo>> \in DOMAIN resolvedInfos
    /\ <<statement.nid, endInfo>> \in DOMAIN resolvedInfos
    /\ resolvedInfos[<<statement.nid, endInfo>>].lineNumber
           > resolvedInfos[<<statement.nid, startInfo>>].lineNumber

\* The two Infos of an if statement are resolved, to the same position.
AtSamePosition(statement, startInfo, endInfo) ==
    /\ <<statement.nid, startInfo>> \in DOMAIN resolvedInfos
    /\ <<statement.nid, endInfo>> \in DOMAIN resolvedInfos
    /\ resolvedInfos[<<statement.nid, endInfo>>].lineNumber
           = resolvedInfos[<<statement.nid, startInfo>>].lineNumber
    /\ resolvedInfos[<<statement.nid, endInfo>>].columnNumber
           = resolvedInfos[<<statement.nid, startInfo>>].columnNumber

\* C5: for every if statement, in every state of the printing: the closeBrace
\* condition, once evaluated, has the outcome of the openBrace condition; the
\* newline before the closing brace is considered only when the braces are
\* emitted, and emitted only when the body's markers resolved to different
\* positions; and the text written holds as many closing as opening braces
\* once the printing is done.
BracePairing ==
    /\ \A s \in IfStatements :
           /\ Evaluated(s, "closeBrace") =>
                  /\ Evaluated(s, "openBrace")
                  /\ Outcome(s, "closeBrace") = Outcome(s, "openBrace")
           /\ Evaluated(s, "closeBraceNewLine") =>
                  /\ Evaluated(s, "closeBrace") /\ Outcome(s, "closeBrace")
                  /\ Outcome(s, "closeBraceNewLine") =>
                         ~AtSamePosition(s, "startStatements", "endStatements")
    /\ phase = "done" => Count(output, "{") = Count(output, "}")

\* An if statement has been printed with its two braces and the newline
\* before the closing one.
BracesPrinted ==
    /\ phase = "done"
    /\ \E s \in IfStatements :
           /\ Outcome(s, "openBrace")
           /\ Outcome(s, "closeBrace")
           /\ Outcome(s, "closeBraceNewLine")
    /\ Count(output, "{") = 1
    /\ Count(output, "}") = 1

\* The static braces-required flag of an if statement.
RequireBraces(statement) ==
    consequentRequiresBraces(statement.consequent, getHeaderTrailingComments(statement))

\* C6 (as the specification states it): once an if statement is printed, its
\* opening brace has been emitted if the braces-required flag is true or the
\* header region or the body region resolved to more than one line.
OpenBraceWheneverMultipleLines ==
    phase = "done" =>
        \A s \in IfStatements :
            (\/ RequireBraces(s)
             \/ OnDifferentLines(s, "startHeader", "endHeader")
             \/ OnDifferentLines(s, "startStatements", "endStatements"))
            => Outcome(s, "openBrace")

\* The text of an identifier or of a call of identifiers, printed on one line.
ExpressionAtoms(node) ==
    IF node.type = "Identifier"
    THEN <<node.name>>
    ELSE <<node.callee.name, "(">>
         \o Concat([i \in DOMAIN node.arguments |->
                       (IF i > 1 THEN <<",", " ">> ELSE <<>>)
                       \o <<node.arguments[i].name>>])
         \o <<")">>

\* The file is one if statement without comments, its test an identifier or
\* a call on one line, its body one expression statement on one line, and
\* `if (<test>) <statement>` fits in the line width.
SimpleIfStatement ==
    /\ Len(Statements) = 1
    /\ Statements[1].type = "IfStatement"
    /\ Statements[1].test.endLine = Statements[1].test.line
    /\ Statements[1].consequent.type = "ExpressionStatement"
    /\ Statements[1].consequent.endLine = Statements[1].consequent.line
    /\ CommentsOfFile = {}
    /\ SumLen(<<"if (">> \o ExpressionAtoms(Statements[1].test) \o <<") ">>
              \o ExpressionAtoms(Statements[1].consequent.expression) \o <<";">>)
           <= options.lineWidth

\* C7 (amended): such an if statement is printed without braces on two lines:
\* `if (<test>)`, a line break, and the statement indented by one level.
SimpleIfOnTwoLines ==
    (phase = "done" /\ SimpleIfStatement) =>
        output = <<"if (">> \o ExpressionAtoms(Statements[1].test)
                 \o <<")", newLineKind, IndentText>>
                 \o ExpressionAtoms(Statements[1].consequent.expression)
                 \o <<";", newLineKind>>

\* `if (x) a();` has been printed.
SimpleIfPrinted ==
    /\ phase = "done"
    /\ SimpleIfStatement
    /\ Statements[1].test.type = "Identifier"
    /\ Count(output, "{") = 0

\* C7 (as the specification states it): such an if statement is printed on a
\* single line, `if (<test>) <statement>`.
SimpleIfOnOneLine ==
    (phase = "done" /\ SimpleIfStatement) =>
        output = <<"if (">> \o ExpressionAtoms(Statements[1].test)
                 \o <<")", " ">>
                 \o ExpressionAtoms(Statements[1].consequent.expression)
                 \o <<";", newLineKind>>

----------------------------------------------------------------------------
(* C8: the separators of comments.                                         *)

\* The file is one expression statement followed by comments (its trailing
\* comments), and its document is drawn.
TrailingCommentsDrawn ==
    /\ Drawn
    /\ Len(Statements) = 1
    /\ Statements[1].type = "ExpressionStatement"
    /\ Statements[1].trailingComments # <<>>

\* The items of a comment, as the specification renders it.
CommentAsSpecified(comment) ==
    IF comment.type = "CommentBlock"
    THEN <<Lit("/*"), Str(comment.value), Lit("*/")>>
    ELSE <<Str(<<"// ">> \o Trim(comment.value)), ExpectNewLine>>

\* The separator the specification puts before a comment that follows an
\* element ending on line endLine.
SeparatorAsSpecified(endLine, comment) ==
    IF comment.line > endLine + 1 THEN <<NewLine, NewLine>>
    ELSE IF comment.line = endLine + 1 THEN <<NewLine>>
    ELSE <<Lit(" ")>>

\* The comments after a statement as the specification emits them.
TrailingCommentsAsSpecified(statement) ==
    LET comments == statement.trailingComments IN
    Concat([i \in DOMAIN comments |->
               SeparatorAsSpecified(IF i = 1 THEN statement.endLine
                                    ELSE comments[i - 1].endLine,
                                    comments[i])
               \o CommentAsSpecified(comments[i])])

\* The items of the document after the statement's semicolon.
AfterSemiColon ==
    LET semiColon == CHOOSE i \in DOMAIN Document : Document[i] = Lit(";") IN
    SubSeq(Document, semiColon + 1, Len(Document))

\* C8 (as the specification states it): the comments after a statement are
\* each preceded by two newlines, one newline or one space, by the number of
\* lines between the previous element and the comment.
CommentSeparators ==
    TrailingCommentsDrawn => AfterSemiColon = TrailingCommentsAsSpecified(Statements[1])

----------------------------------------------------------------------------
(* C9: indentation scopes.                                                 *)

\* What OpenScopes gives once a signal closes a scope that is not the
\* innermost open one.
Unbalanced == <<Sig("Unbalanced")>>

\* The scopes left open by the signals of items, innermost first, given the
\* scopes open before them.
RECURSIVE OpenScopes(_, _)
OpenScopes(items, open) ==
    IF items = <<>> \/ open = Unbalanced THEN open
    ELSE IF Head(items) \in {StartIndent, StartHangingIndent}
    THEN OpenScopes(Tail(items), <<Head(items)>> \o open)
    ELSE IF Head(items) = FinishIndent
    THEN OpenScopes(Tail(items),
                    IF open # <<>> /\ Head(open) = StartIndent
                    THEN Tail(open) ELSE Unbalanced)
    ELSE IF Head(items) = FinishHangingIndent
    THEN OpenScopes(Tail(items),
                    IF open # <<>> /\ Head(open) = StartHangingIndent
                    THEN Tail(open) ELSE Unbalanced)
    ELSE OpenScopes(Tail(items), open)

\* C9: in every state of the translation, the indent and hanging-indent
\* signals of the document drawn so far are balanced and nested: no signal
\* closes a scope other than the innermost open one, and none is left open.
ScopesBalanced == OpenScopes(Document, <<>>) = <<>>

\* A document has been drawn in which a hanging-indent scope lies inside an
\* indent scope.
NestedScopesDrawn ==
    /\ Drawn
    /\ \E i, j \in DOMAIN Document :
           /\ i < j
           /\ Document[i] = StartIndent
           /\ Document[j] = StartHangingIndent
           /\ \A k \in (i + 1)..(j - 1) : Document[k] # FinishIndent

----------------------------------------------------------------------------
(* C10: statement separators.                                              *)

\* The statement is of a kind that carries a body.
CarriesBody(statement) == statement.type \in {"FunctionDeclaration", "BlockStatement"}

\* What parseStatements yields, item by item: a statement's group, a newline,
\* or something else.
StatementShape(items) ==
    [i \in DOMAIN items |->
        IF items[i].kind \in {"Group", "LazyGroup"} THEN "statement"
        ELSE IF items[i] = NewLine THEN "newline"
        ELSE "other"]

\* The shape the claim gives for a sequence of statements.
ShapeAsSpecified(statements) ==
    Concat([i \in DOMAIN statements |->
               (IF i = 1 THEN <<>>
                ELSE IF CarriesBody(statements[i - 1]) \/ CarriesBody(statements[i])
                THEN <<"newline", "newline">>
                ELSE <<"newline">>)
               \o <<"statement">>])

\* The groups parseStatements has yielded and that are not yet drawn are the
\* groups of the statements in source order.
InSourceOrder ==
    \A i \in pending :
        programItems[i].node
            = Statements[Count(SubSeq(StatementShape(programItems), 1, i), "statement")]

\* C10: while and after the program's statements are yielded, what has been
\* yielded is the statements so far in source order, with two newlines
\* before a statement when it or the one before it carries a body, one
\* newline otherwise, and nothing before the first or after the last; and
\* the same holds of what parseStatements yields for every block of the file.
StatementSeparators ==
    /\ phase \in {"parse", "parsed"} =>
           /\ StatementShape(programItems)
                  = ShapeAsSpecified(SubSeq(Statements, 1, nextStatement))
           /\ InSourceOrder
    /\ phase = "parsed" =>
           \A block \in {n \in NodesIn(file.program) : n.type = "BlockStatement"} :
               StatementShape(parseStatements(block))
                   = ShapeAsSpecified(block.body) \o <<"other">>

\* A function declaration and an expression statement have been yielded with
\* two newlines between them.
TwoNewLinesAfterFunction ==
    /\ phase = "parsed"
    /\ Len(Statements) = 2
    /\ Statements[1].type = "FunctionDeclaration"
    /\ Statements[2].type = "ExpressionStatement"
    /\ StatementShape(programItems) = <<"statement", "newline", "newline", "statement">>

----------------------------------------------------------------------------
(* C11: nodes without a handler.                                           *)

\* The nodes without a handler that the translation comes to, in source
\* order: what lies under such a node is not looked at.
\* (A type parameter declaration is translated by the handler of the node
\* that holds it.)
RECURSIVE OutermostUnknownNodes(_)
OutermostUnknownNodes(node) ==
    IF node.type \notin HandlerTypes \cup {"TSTypeParameterDeclaration"}
    THEN <<node>>
    ELSE Concat([i \in DOMAIN Children(node) |-> OutermostUnknownNodes(Children(node)[i])])

\* The slice of the file's text from the node's start offset to its end offset.
SourceSlice(node) == [i \in 1..(node.end - node.start) |-> fileText[node.start + i]]

\* The item the claim gives for a node without a handler.
UnknownItemOf(node) == Unknown(removeStringIndentation(SourceSlice(node)))

\* The message the claim gives for a node without a handler: the kind name
\* and the source text.
MessageOf(node) ==
    <<"Not implemented node type: ", node.type, " (">> \o SourceSlice(node) \o <<")">>

\* C11: once the document of a file is drawn, it holds one Unknown item for
\* each node without a handler the translation came to, in source order,
\* carrying the node's de-indented source slice, and none for the nodes
\* under it; the log was called once for each of these nodes, with the kind
\* and the source text, and never for a node under one; every statement of
\* the program has its group, and the statement around an expression
\* without a handler is the expression's item and the semicolon.
UnknownNodesCopied ==
    Drawn =>
        LET nodes == OutermostUnknownNodes(file.program) IN
        /\ SelectSeq(Document, LAMBDA item : item.kind = "Unknown")
               = [i \in DOMAIN nodes |-> UnknownItemOf(nodes[i])]
        /\ Len(log) = Len(nodes)
        /\ \A i \in DOMAIN nodes :
               Count(log, MessageOf(nodes[i]))
                   = Cardinality({j \in DOMAIN nodes : MessageOf(nodes[j]) = MessageOf(nodes[i])})
        /\ Count(StatementShape(programItems), "statement") = Len(Statements)
        /\ \A i \in DOMAIN programItems :
               LET statement == Statements[Count(SubSeq(StatementShape(programItems), 1, i),
                                                 "statement")]
               IN (/\ programItems[i].kind = "Group"
                   /\ statement.type = "ExpressionStatement"
                   /\ statement.expression.type \notin HandlerTypes)
                  => Flatten(<<programItems[i]>>)
                         = <<UnknownItemOf(statement.expression), Lit(";")>>

\* A declaration on three lines, indented, and `a + b;` have been translated:
\* two nodes without a handler copied and logged, the first de-indented.
TwoUnknownNodesCopied ==
    /\ Drawn
    /\ Len(Statements) = 2
    /\ Statements[1].type = "VariableDeclaration"
    /\ Statements[2].type = "ExpressionStatement"
    /\ Len(log) = 2
    /\ Document = <<Unknown(<<"let b =", "\n", " ", " ", "c--", "\n", ";">>),
                    NewLine,
                    Unknown(<<"a", " + ", "b">>), Lit(";")>>

----------------------------------------------------------------------------
(* C12: the end of the file.                                               *)

EndOfFile == <<0, "endOfFileNewLine">>

\* The file has no statement and no comment.
EmptyFile == Statements = <<>> /\ CommentsOfFile = {}

\* C12: the root document is the program's group and then one condition,
\* endOfFileNewLine, whose true branch is the newline string and whose false
\* branch is nothing; once the file is printed the condition has been
\* evaluated, to true exactly when something had been written, and then the
\* output is what had been written and one newline; the output of an empty
\* file is empty, and the output of any other file ends with the one newline.
EndOfFileNewLine ==
    /\ Len(parseFile) = 2
    /\ parseFile[1] = Group(programItems)
    /\ parseFile[2].kind = "Condition"
    /\ parseFile[2].name = "endOfFileNewLine"
    /\ parseFile[2].true = <<Lit(newLineKind)>>
    /\ parseFile[2].false = <<>>
    /\ phase = "done" =>
           /\ EndOfFile \in DOMAIN resolvedConditions
           /\ resolvedConditions[EndOfFile] = (output # <<>>)
           /\ output # <<>> =>
                  /\ Len(output) >= 2
                  /\ output[Len(output)] = newLineKind
                  /\ ~IsNewLine(output[Len(output) - 1])
           /\ EmptyFile <=> output = <<>>

\* The empty file has been printed: nothing was written.
EmptyFilePrinted ==
    /\ phase = "done"
    /\ EmptyFile
    /\ output = <<>>
    /\ resolvedConditions[EndOfFile] = FALSE

----------------------------------------------------------------------------
(* The formatter: configuration before use.                                *)

\* The operations that need the configuration.
NeedConfig == {"formatText", "getConfigDiagnostics", "getResolvedConfig"}

\* C13: formatText, getConfigDiagnostics and getResolvedConfig throw "You
\* must call setConfig before calling this function." and call no export of
\* the plugin unless an earlier call of setConfig has run to completion; once
\* one has, they never throw that error; getPluginInfo never throws it.
ConfigSetBeforeUse ==
    /\ operation.name \in NeedConfig =>
           IF configured
           THEN operation.thrown # ConfigNotSet
           ELSE operation.thrown = ConfigNotSet /\ operation.exports = <<>>
    /\ operation.name = "getPluginInfo" => operation.thrown # ConfigNotSet

\* formatText is called after a setConfig that threw, and throws the error.
FormatTextAfterFailedSetConfig ==
    /\ operation.name = "formatText"
    /\ operations = 2
    /\ ~configured
    /\ bufferSize = 1
    /\ operation.thrown = ConfigNotSet

----------------------------------------------------------------------------
(* The formatter: formatText, the constructors, the string transport.      *)

\* C14: once the configuration is set, formatText returns the file text it
\* was given when the plugin answers "no change", returns the plugin's
\* formatted text when it answers "change", and throws an Error with the
\* plugin's error text when it answers "error".
FormatTextResult ==
    (operation.name = "formatText" /\ configured) =>
        CASE operation.given.responseCode = 0 ->
                 operation.thrown = NoError /\ operation.value = operation.given.fileText
          [] operation.given.responseCode = 1 ->
                 operation.thrown = NoError /\ operation.value = operation.given.text
          [] operation.given.responseCode = 2 ->
                 operation.thrown = Error("Error", operation.given.text)

\* C15: createStreaming ends as createFromInstance does on the same plugin:
\* with a formatter when the plugin's schema version is 1, with the "Not
\* compatible plugin" error otherwise, and with the same exports called.
CreateStreamingAsCreateFromInstance ==
    operation.name = "createStreaming" =>
        /\ operation.thrown = createFromInstance(Run(sharedBytes, memoryBuffer)).thrown
        /\ operation.exports = createFromInstance(Run(sharedBytes, memoryBuffer)).exports
        /\ formatter = IF pluginSchemaVersion = 1 THEN "created" ELSE "failed"

\* C16: every run of sendString ends without an error and with the whole
\* encoded text in the plugin's shared bytes, whatever the text's length and
\* the buffer's size.
StringsSentWhole ==
    \A i \in DOMAIN operation.sends :
        /\ operation.sends[i].thrown = NoError
        /\ operation.sends[i].sharedBytes = encode(operation.sends[i].text)

\* C17: every run of receiveString ends with the plugin's shared bytes in
\* its buffer, in their order, whatever their length and the buffer's size.
StringsReceivedWhole ==
    \A i \in DOMAIN operation.receives :
        operation.receives[i].buffer = operation.receives[i].sharedBytes

====
